---- MODULE Spec2Model ----
(***************************************************************************)
(* Model of the polymarket-agent trading controller: the SQLite ledger     *)
(* (src/src/db.rs), the accountant (accounting.rs), the executor           *)
(* (executor.rs), the estimator's evaluate pipeline (estimator.rs), the    *)
(* sizer, the edge detector, the position manager and the recurring loop   *)
(* of main.rs.                                                             *)
(*                                                                         *)
(* f64 values are modelled as exact rationals <<n, d>> in lowest terms     *)
(* with d > 0 (floating-point rounding is abstracted away).  A SQL NULL /  *)
(* Rust None is the value NULL.                                            *)
(***************************************************************************)
EXTENDS Integers, Sequences, FiniteSets, TLC

(***************************************************************************)
(* f64 arithmetic as exact rationals                                       *)
(***************************************************************************)
RECURSIVE GCD(_, _)
GCD(a, b) == IF b = 0 THEN a ELSE GCD(b, a % b)

IAbs(x) == IF x < 0 THEN -x ELSE x

Rat(n, d) ==
    LET s == IF d < 0 THEN -1 ELSE 1
        g == GCD(IAbs(n), IAbs(d))
    IN  IF n = 0 THEN <<0, 1>> ELSE <<(s * n) \div g, (s * d) \div g>>

Zero == <<0, 1>>
One == <<1, 1>>
NULL == <<>>

Add(a, b) == Rat(a[1] * b[2] + b[1] * a[2], a[2] * b[2])
Neg(a) == <<-a[1], a[2]>>
Sub(a, b) == Add(a, Neg(b))
Mul(a, b) == Rat(a[1] * b[1], a[2] * b[2])
Div(a, b) == Rat(a[1] * b[2], a[2] * b[1])
Lt(a, b) == a[1] * b[2] < b[1] * a[2]
Le(a, b) == a[1] * b[2] <= b[1] * a[2]
Gt(a, b) == Lt(b, a)
Ge(a, b) == Le(b, a)
RMin(a, b) == IF Lt(b, a) THEN b ELSE a
RMax(a, b) == IF Lt(a, b) THEN b ELSE a
RAbs(a) == <<IAbs(a[1]), a[2]>>

RECURSIVE SumSeq(_)
SumSeq(s) == IF s = <<>> THEN Zero ELSE Add(Head(s), SumSeq(Tail(s)))

SelectIdx(s, Test(_)) == {i \in 1..Len(s) : Test(s[i])}

(***************************************************************************)
(* The ledger: one variable per table of the schema (db.rs run_migrations) *)
(***************************************************************************)
VARIABLES
    markets,              \* set of condition_id with a row in markets
    trades,               \* sequence of trade rows, in id order
    positions,            \* sequence of position rows, in id order
    bankroll_log,         \* sequence of bankroll entries, in id order
    cycle_log,            \* sequence of cycle summaries
    api_cost_log,         \* sequence of API cost records
    peak_bankroll,        \* sequence of peak values, in id order
    cycle_opportunities,  \* sequence of opportunity rows
    position_alerts       \* sequence of position alerts

dbVars == <<markets, trades, positions, bankroll_log, cycle_log, api_cost_log,
            peak_bankroll, cycle_opportunities, position_alerts>>

Markets == {"m1", "m2"}
Sides == {"YES", "NO"}

\* token ids of a market, as the catalog lists them (tokens[].token_id)
TokenOf(m, side) == <<m, side>>

(***************************************************************************)
(* Database operations (db.rs).  Each returns the new table; an operation  *)
(* that fails with an error returns [ok |-> FALSE] and the table unchanged.*)
(***************************************************************************)
OpenIdx(pos, m, side) ==
    {i \in 1..Len(pos) : pos[i].market_condition_id = m /\ pos[i].side = side
                          /\ pos[i].status = "open"}

\* query_row returns the first matching row
FirstOpen(pos, m, side) == CHOOSE i \in OpenIdx(pos, m, side) :
                               \A j \in OpenIdx(pos, m, side) : i <= j

NewPosition(m, tok, side, entry_price, size, est) ==
    [market_condition_id |-> m, token_id |-> tok, side |-> side,
     entry_price |-> entry_price, size |-> size, status |-> "open",
     current_price |-> NULL, unrealized_pnl |-> Zero, realized_pnl |-> Zero,
     estimated_probability |-> est]

avg_price(old_price, old_size, entry_price, size) ==
    Div(Add(Mul(old_price, old_size), Mul(entry_price, size)), Add(old_size, size))

upsert_position_with_estimate(pos, mkts, m, tok, side, entry_price, size, est) ==
    IF OpenIdx(pos, m, side) # {}
    THEN LET i == FirstOpen(pos, m, side)
             old == pos[i]
         IN  [ok |-> TRUE,
              positions |-> [pos EXCEPT ![i] =
                  [old EXCEPT !.entry_price = avg_price(old.entry_price, old.size, entry_price, size),
                              !.size = Add(old.size, size),
                              !.token_id = tok,
                              !.estimated_probability =
                                  IF est # NULL THEN est ELSE old.estimated_probability]]]
    ELSE IF m \in mkts
         THEN [ok |-> TRUE,
               positions |-> Append(pos, NewPosition(m, tok, side, entry_price, size, est))]
         ELSE [ok |-> FALSE, positions |-> pos]

\* an upsert that overwrites the open row's entry_price and size
upsert_replacing(pos, mkts, m, tok, side, entry_price, size) ==
    IF OpenIdx(pos, m, side) # {}
    THEN LET i == FirstOpen(pos, m, side)
         IN  [ok |-> TRUE,
              positions |-> [pos EXCEPT ![i] =
                  [pos[i] EXCEPT !.entry_price = entry_price, !.size = size,
                                 !.token_id = tok]]]
    ELSE upsert_position_with_estimate(pos, mkts, m, tok, side, entry_price, size, NULL)

\* an upsert that never looks for the open row and always inserts
insert_position(pos, mkts, m, tok, side, entry_price, size) ==
    IF m \in mkts
    THEN [ok |-> TRUE,
          positions |-> Append(pos, NewPosition(m, tok, side, entry_price, size, NULL))]
    ELSE [ok |-> FALSE, positions |-> pos]

upsert_position(pos, mkts, m, tok, side, entry_price, size) ==
    IF OpenIdx(pos, m, side) # {}
    THEN LET i == FirstOpen(pos, m, side)
             old == pos[i]
         IN  [ok |-> TRUE,
              positions |-> [pos EXCEPT ![i] =
                  [old EXCEPT !.entry_price = avg_price(old.entry_price, old.size, entry_price, size),
                              !.size = Add(old.size, size),
                              !.token_id = tok]]]
    ELSE IF m \in mkts
         THEN [ok |-> TRUE,
               positions |-> Append(pos, NewPosition(m, tok, side, entry_price, size, NULL))]
         ELSE [ok |-> FALSE, positions |-> pos]


\* a quote that is never written to the ledger
price_not_stored(pos, m, side, current_price) == pos

update_position_price(pos, m, side, current_price) ==
    [i \in 1..Len(pos) |->
        IF i \in OpenIdx(pos, m, side)
        THEN [pos[i] EXCEPT !.current_price = current_price,
                            !.unrealized_pnl = Mul(Sub(current_price, pos[i].entry_price), pos[i].size)]
        ELSE pos[i]]

\* a profit that takes the proceeds of the sale for the gain
pnl_as_proceeds(row, exit_price) == Mul(exit_price, row.size)

realized_pnl_of(row, exit_price) == Mul(Sub(exit_price, row.entry_price), row.size)

close_position(pos, m, side, exit_price) ==
    IF OpenIdx(pos, m, side) = {}
    THEN [ok |-> FALSE, positions |-> pos, realized_pnl |-> Zero]
    ELSE LET pnl == realized_pnl_of(pos[FirstOpen(pos, m, side)], exit_price)
         IN  [ok |-> TRUE,
              realized_pnl |-> pnl,
              positions |-> [i \in 1..Len(pos) |->
                  IF i \in OpenIdx(pos, m, side)
                  THEN [pos[i] EXCEPT !.status = "closed", !.current_price = exit_price,
                                      !.realized_pnl = pnl, !.unrealized_pnl = Zero]
                  ELSE pos[i]]]

update_position_estimate(pos, m, est) ==
    [i \in 1..Len(pos) |->
        IF pos[i].market_condition_id = m /\ pos[i].status = "open"
        THEN [pos[i] EXCEPT !.estimated_probability = est]
        ELSE pos[i]]

\* a lookup that never finds an open position
never_positioned(pos, m) == FALSE

has_open_position(pos, m) ==
    \E i \in 1..Len(pos) : pos[i].market_condition_id = m /\ pos[i].status = "open"

get_open_positions(pos) == SelectSeq(pos, LAMBDA r : r.status = "open")

RECURSIVE ExposureOf(_)
ExposureOf(rows) ==
    IF rows = <<>> THEN Zero
    ELSE Add(Mul(Head(rows).entry_price, Head(rows).size), ExposureOf(Tail(rows)))

\* an exposure that also counts the closed positions
exposure_of_all_rows(pos) == ExposureOf(pos)

get_total_exposure(pos) == ExposureOf(get_open_positions(pos))

\* a peak update that also appends a value equal to the stored peak
new_peak_row_on_equal(peaks, current) ==
    IF peaks = <<>> THEN current
    ELSE IF Ge(current, peaks[Len(peaks)]) THEN current ELSE NULL

\* the new peak row to append, or NULL when none is appended
new_peak_row(peaks, current) ==
    IF peaks = <<>> THEN current
    ELSE IF Gt(current, peaks[Len(peaks)]) THEN current ELSE NULL

update_peak_bankroll(peaks, current) ==
    LET row == new_peak_row(peaks, current)
    IN  IF row # NULL
        THEN [peak |-> current, peak_bankroll |-> Append(peaks, row)]
        ELSE [peak |-> peaks[Len(peaks)], peak_bankroll |-> peaks]

get_current_bankroll(log) ==
    IF log = <<>> THEN Zero ELSE log[Len(log)].balance_after

\* description: the facts the description text carries, [cycle, market]
\* ("Cycle N API cost" names the cycle, a trade or exit text names the market)
Describe(k, m) == [cycle |-> k, market |-> m]

log_bankroll_entry(log, entry_type, amount, balance_after, description) ==
    Append(log, [entry_type |-> entry_type, amount |-> amount,
                 balance_after |-> balance_after, description |-> description])

\* a seeding that does not look at the ledger first
seed_on_every_start(log, initial) ==
    log_bankroll_entry(log, "seed", initial, initial, Describe(0, ""))

ensure_bankroll_seeded(log, initial) ==
    IF Len(log) = 0
    THEN log_bankroll_entry(log, "seed", initial, initial, Describe(0, ""))
    ELSE log

RECURSIVE CostSum(_, _)
CostSum(rows, k) ==
    IF rows = <<>> THEN Zero
    ELSE Add(IF Head(rows).cycle_number = k THEN Head(rows).cost_usd ELSE Zero,
             CostSum(Tail(rows), k))

get_cycle_api_cost(log, k) == CostSum(log, k)

log_api_cost(log, k, m, cost, call_type) ==
    Append(log, [cycle_number |-> k, market_condition_id |-> m,
                 cost_usd |-> cost, call_type |-> call_type])

RECURSIVE MaxCycle(_)
MaxCycle(rows) ==
    IF rows = <<>> THEN 0
    ELSE LET r == MaxCycle(Tail(rows))
         IN  IF Head(rows).cycle_number > r THEN Head(rows).cycle_number ELSE r

get_next_cycle_number(clog) == MaxCycle(clog) + 1

insert_trade(tr, mkts, trade_id, m, tok, side, price, size, paper, entry_fee) ==
    IF m \in mkts /\ \A i \in 1..Len(tr) : tr[i].trade_id # trade_id
    THEN [ok |-> TRUE,
          trades |-> Append(tr, [trade_id |-> trade_id, market_condition_id |-> m,
                                 token_id |-> tok, side |-> side, price |-> price,
                                 size |-> size, paper |-> paper, entry_fee |-> entry_fee])]
    ELSE [ok |-> FALSE, trades |-> tr]

(***************************************************************************)
(* Catalog facts about the markets (question text, as weather_client.rs    *)
(* parse_weather_market and the correlation groups read it)                *)
(***************************************************************************)
\* parse_weather_market(question).is_some(): m2 is a New York temperature market
is_weather(m) == m \in {"m2", "m3"}

\* the tokens a scanned market lists: m1 lists a Yes token only, m2 and m3 list both
lists_no_token(m) == m \in {"m2", "m3"}

\* the bankroll description of a trade embeds the question; the daily-loss query
\* matches '%temperature%' / '%weather%', which every weather question contains
DescMentionsWeather(m) == is_weather(m)

(***************************************************************************)
(* Edge detector (edge_detector.rs).  detect returns an Option: <<>> for   *)
(* None, <<opp>> for Some(opp).                                            *)
(***************************************************************************)
min_confidence == <<1, 2>>

\* a detector that wants the net edge strictly above the threshold
detect_above_threshold_only(a, min_edge_threshold, fee_rate) ==
    LET yes_edge == Sub(a.probability, a.market_yes_price)
        no_edge == Sub(a.market_yes_price, a.probability)
        side == IF Ge(yes_edge, no_edge) THEN "YES" ELSE "NO"
        edge == IF Ge(yes_edge, no_edge) THEN yes_edge ELSE no_edge
        net_edge == Sub(edge, Mul(<<2, 1>>, fee_rate))
    IN  IF Le(net_edge, min_edge_threshold) THEN <<>>
        ELSE IF Lt(a.confidence, min_confidence) THEN <<>>
        ELSE <<[market_id |-> a.market_id, side |-> side,
                estimated_probability |-> a.probability,
                market_price |-> a.market_yes_price,
                edge |-> edge, net_edge |-> net_edge, confidence |-> a.confidence]>>

detect(a, min_edge_threshold, fee_rate) ==
    LET yes_edge == Sub(a.probability, a.market_yes_price)
        no_edge == Sub(a.market_yes_price, a.probability)
        side == IF Ge(yes_edge, no_edge) THEN "YES" ELSE "NO"
        edge == IF Ge(yes_edge, no_edge) THEN yes_edge ELSE no_edge
        net_edge == Sub(edge, Mul(<<2, 1>>, fee_rate))
    IN  IF Lt(net_edge, min_edge_threshold) THEN <<>>
        ELSE IF Lt(a.confidence, min_confidence) THEN <<>>
        ELSE <<[market_id |-> a.market_id, side |-> side,
                estimated_probability |-> a.probability,
                market_price |-> a.market_yes_price,
                edge |-> edge, net_edge |-> net_edge, confidence |-> a.confidence]>>

\* stable insertion of x into a sequence sorted by net_edge descending
RECURSIVE InsertByNetEdge(_, _)
InsertByNetEdge(sorted, x) ==
    IF sorted = <<>> THEN <<x>>
    ELSE IF Ge(Head(sorted).net_edge, x.net_edge)
         THEN <<Head(sorted)>> \o InsertByNetEdge(Tail(sorted), x)
         ELSE <<x>> \o sorted

RECURSIVE SortByNetEdge(_)
SortByNetEdge(s) ==
    IF s = <<>> THEN <<>>
    ELSE InsertByNetEdge(SortByNetEdge(SubSeq(s, 1, Len(s) - 1)), s[Len(s)])

RECURSIVE FilterDetect(_, _, _)
FilterDetect(as, thr, fee) ==
    IF as = <<>> THEN <<>>
    ELSE detect(Head(as), thr, fee) \o FilterDetect(Tail(as), thr, fee)

\* a batch detection that keeps the order of the analyses
detect_batch_unsorted(as, thr, fee) == FilterDetect(as, thr, fee)

detect_batch(as, thr, fee) == SortByNetEdge(FilterDetect(as, thr, fee))

(***************************************************************************)
(* Sizer (position_sizer.rs).  days is an Option<i64>: <<>> or <<d>>; a    *)
(* reject_reason of "" stands for None.                                    *)
(***************************************************************************)
rejected(reason) ==
    [raw_kelly |-> Zero, adjusted_kelly |-> Zero, position_usd |-> Zero,
     shares |-> Zero, limit_price |-> Zero, reject_reason |-> reason]

time_multiplier(days) ==
    IF days >= 0 /\ days <= 2 THEN One
    ELSE IF days >= 3 /\ days <= 4 THEN <<7, 10>>
    ELSE IF days >= 5 /\ days <= 7 THEN <<2, 5>>
    ELSE <<1, 5>>

\* a sizer that leaves out the per-position cap
size_without_position_cap(sizer, opp, bankroll, current_exposure, days) ==
    LET buy_price == IF opp.side = "YES" THEN opp.market_price ELSE Sub(One, opp.market_price)
        win_prob == IF opp.side = "YES" THEN opp.estimated_probability
                    ELSE Sub(One, opp.estimated_probability)
    IN  IF Ge(buy_price, One) THEN rejected("buy price >= 1.0")
        ELSE
        LET raw_kelly == Div(Sub(win_prob, buy_price), Sub(One, buy_price))
        IN  IF Le(raw_kelly, Zero) THEN rejected("negative Kelly")
            ELSE
            LET adjusted_kelly == IF days = <<>> THEN Mul(raw_kelly, sizer.kelly_fraction)
                                  ELSE Mul(Mul(raw_kelly, sizer.kelly_fraction), time_multiplier(days[1]))
                max_exposure == Mul(sizer.max_total_exposure_pct, bankroll)
                remaining_exposure == RMax(Sub(max_exposure, current_exposure), Zero)
            IN  IF Le(remaining_exposure, Zero) THEN rejected("exposure limit reached")
                ELSE
                LET position_usd == RMin(Mul(adjusted_kelly, bankroll),
                                         remaining_exposure)
                IN  IF Lt(position_usd, One) THEN rejected("position too small")
                    ELSE [raw_kelly |-> raw_kelly, adjusted_kelly |-> adjusted_kelly,
                          position_usd |-> position_usd,
                          shares |-> Div(position_usd, buy_price),
                          limit_price |-> buy_price, reject_reason |-> ""]

\* a sizer that does not look at the exposure room
size_ignoring_exposure(sizer, opp, bankroll, current_exposure, days) ==
    LET buy_price == IF opp.side = "YES" THEN opp.market_price ELSE Sub(One, opp.market_price)
        win_prob == IF opp.side = "YES" THEN opp.estimated_probability
                    ELSE Sub(One, opp.estimated_probability)
    IN  IF Ge(buy_price, One) THEN rejected("buy price >= 1.0")
        ELSE
        LET raw_kelly == Div(Sub(win_prob, buy_price), Sub(One, buy_price))
        IN  IF Le(raw_kelly, Zero) THEN rejected("negative Kelly")
            ELSE
            LET adjusted_kelly == IF days = <<>> THEN Mul(raw_kelly, sizer.kelly_fraction)
                                  ELSE Mul(Mul(raw_kelly, sizer.kelly_fraction), time_multiplier(days[1]))
                max_exposure == Mul(sizer.max_total_exposure_pct, bankroll)
                remaining_exposure == RMax(Sub(max_exposure, current_exposure), Zero)
            IN  LET position_usd == RMin(Mul(adjusted_kelly, bankroll),
                                         Mul(sizer.max_position_pct, bankroll))
                IN  IF Lt(position_usd, One) THEN rejected("position too small")
                    ELSE [raw_kelly |-> raw_kelly, adjusted_kelly |-> adjusted_kelly,
                          position_usd |-> position_usd,
                          shares |-> Div(position_usd, buy_price),
                          limit_price |-> buy_price, reject_reason |-> ""]

size_position_with_time(sizer, opp, bankroll, current_exposure, days) ==
    LET buy_price == IF opp.side = "YES" THEN opp.market_price ELSE Sub(One, opp.market_price)
        win_prob == IF opp.side = "YES" THEN opp.estimated_probability
                    ELSE Sub(One, opp.estimated_probability)
    IN  IF Ge(buy_price, One) THEN rejected("buy price >= 1.0")
        ELSE
        LET raw_kelly == Div(Sub(win_prob, buy_price), Sub(One, buy_price))
        IN  IF Le(raw_kelly, Zero) THEN rejected("negative Kelly")
            ELSE
            LET adjusted_kelly == IF days = <<>> THEN Mul(raw_kelly, sizer.kelly_fraction)
                                  ELSE Mul(Mul(raw_kelly, sizer.kelly_fraction), time_multiplier(days[1]))
                max_exposure == Mul(sizer.max_total_exposure_pct, bankroll)
                remaining_exposure == RMax(Sub(max_exposure, current_exposure), Zero)
            IN  IF Le(remaining_exposure, Zero) THEN rejected("exposure limit reached")
                ELSE
                LET position_usd == RMin(RMin(Mul(adjusted_kelly, bankroll),
                                              Mul(sizer.max_position_pct, bankroll)),
                                         remaining_exposure)
                IN  IF Lt(position_usd, One) THEN rejected("position too small")
                    ELSE [raw_kelly |-> raw_kelly, adjusted_kelly |-> adjusted_kelly,
                          position_usd |-> position_usd,
                          shares |-> Div(position_usd, buy_price),
                          limit_price |-> buy_price, reject_reason |-> ""]

(***************************************************************************)
(* Estimator pipeline (estimator.rs evaluate).  llm describes what the LLM *)
(* service answers: triage in {"http_err", "skip", "analyze"} with cost    *)
(* tcost, analysis in {"http_err", "parse_err", "ok"} with cost acost.     *)
(* calls lists the LLM calls that were answered (and therefore billed).    *)
(***************************************************************************)
\* an evaluate whose two budget gates let a spend equal to the budget through
evaluate_budget_exceeded_only(m, midpoint, cost_so_far, max_cost, llm) ==
    IF Gt(cost_so_far, max_cost) THEN [result |-> "none", calls |-> <<>>]
    ELSE IF llm.triage = "http_err" THEN [result |-> "err", calls |-> <<>>]
    ELSE
    LET triage_cost == [model |-> "haiku", cost_usd |-> llm.tcost]
    IN  IF llm.triage = "skip" THEN [result |-> "none", calls |-> <<triage_cost>>]
        ELSE IF Gt(Add(cost_so_far, llm.tcost), max_cost)
             THEN [result |-> "none", calls |-> <<triage_cost>>]
        ELSE IF llm.analysis = "http_err" THEN [result |-> "err", calls |-> <<triage_cost>>]
        ELSE
        LET analysis_cost == [model |-> "sonnet", cost_usd |-> llm.acost]
        IN  IF llm.analysis = "parse_err"
            THEN [result |-> "err", calls |-> <<triage_cost, analysis_cost>>]
            ELSE [result |-> "some", calls |-> <<triage_cost, analysis_cost>>,
                  market_id |-> m, probability |-> llm.probability,
                  confidence |-> llm.confidence, market_yes_price |-> midpoint,
                  total_cost |-> Add(llm.tcost, llm.acost),
                  api_calls |-> <<triage_cost, analysis_cost>>]

evaluate(m, midpoint, cost_so_far, max_cost, llm) ==
    IF Ge(cost_so_far, max_cost) THEN [result |-> "none", calls |-> <<>>]
    ELSE IF llm.triage = "http_err" THEN [result |-> "err", calls |-> <<>>]
    ELSE
    LET triage_cost == [model |-> "haiku", cost_usd |-> llm.tcost]
    IN  IF llm.triage = "skip" THEN [result |-> "none", calls |-> <<triage_cost>>]
        ELSE IF Ge(Add(cost_so_far, llm.tcost), max_cost)
             THEN [result |-> "none", calls |-> <<triage_cost>>]
        ELSE IF llm.analysis = "http_err" THEN [result |-> "err", calls |-> <<triage_cost>>]
        ELSE
        LET analysis_cost == [model |-> "sonnet", cost_usd |-> llm.acost]
        IN  IF llm.analysis = "parse_err"
            THEN [result |-> "err", calls |-> <<triage_cost, analysis_cost>>]
            ELSE [result |-> "some", calls |-> <<triage_cost, analysis_cost>>,
                  market_id |-> m, probability |-> llm.probability,
                  confidence |-> llm.confidence, market_yes_price |-> midpoint,
                  total_cost |-> Add(llm.tcost, llm.acost),
                  api_calls |-> <<triage_cost, analysis_cost>>]

(***************************************************************************)
(* Accountant (accounting.rs)                                              *)
(***************************************************************************)
\* a survival check that takes a balance of exactly zero for alive
alive_at_zero(bankroll_after) == Ge(bankroll_after, Zero)

is_alive_of(bankroll_after) == Gt(bankroll_after, Zero)

\* a close_cycle that writes its api_cost entry whatever the sum
close_cycle_always_logs(log, costs, k) ==
    LET bankroll_before == get_current_bankroll(log)
        api_cost == get_cycle_api_cost(costs, k)
        after == Sub(bankroll_before, api_cost)
    IN  [bankroll_log |-> log_bankroll_entry(log, "api_cost", Neg(api_cost), after,
                                             Describe(k, "")),
         bankroll_before |-> bankroll_before, bankroll_after |-> after,
         api_cost |-> api_cost, is_alive |-> is_alive_of(after)]

\* a close_cycle that deducts a cycle's cost only the first time it is closed
close_cycle_once(log, costs, k) ==
    LET bankroll_before == get_current_bankroll(log)
        api_cost == get_cycle_api_cost(costs, k)
        after == Sub(bankroll_before, api_cost)
        closed == \E i \in 1..Len(log) :
                     log[i].entry_type = "api_cost" /\ log[i].description.cycle = k
    IN  IF Gt(api_cost, Zero) /\ ~closed
        THEN [bankroll_log |-> log_bankroll_entry(log, "api_cost", Neg(api_cost), after,
                                                  Describe(k, "")),
              bankroll_before |-> bankroll_before, bankroll_after |-> after,
              api_cost |-> api_cost, is_alive |-> is_alive_of(after)]
        ELSE [bankroll_log |-> log,
              bankroll_before |-> bankroll_before, bankroll_after |-> bankroll_before,
              api_cost |-> api_cost, is_alive |-> is_alive_of(bankroll_before)]

close_cycle(log, costs, k) ==
    LET bankroll_before == get_current_bankroll(log)
        api_cost == get_cycle_api_cost(costs, k)
        after == Sub(bankroll_before, api_cost)
    IN  IF Gt(api_cost, Zero)
        THEN [bankroll_log |-> log_bankroll_entry(log, "api_cost", Neg(api_cost), after,
                                                  Describe(k, "")),
              bankroll_before |-> bankroll_before, bankroll_after |-> after,
              api_cost |-> api_cost, is_alive |-> is_alive_of(after)]
        ELSE [bankroll_log |-> log,
              bankroll_before |-> bankroll_before, bankroll_after |-> bankroll_before,
              api_cost |-> api_cost, is_alive |-> is_alive_of(bankroll_before)]

(***************************************************************************)
(* Executor (executor.rs).  d is the ledger [markets, trades, positions,   *)
(* bankroll_log]; the result is [ok, db] and, for an exit, realized_pnl.   *)
(* A step that fails returns the error at once and keeps what the earlier  *)
(* steps wrote (there is no transaction around them).                      *)
(***************************************************************************)
\* a fee entry that leaves the balance as it was
fee_not_deducted(balance, fee) == balance

\* balance after the fee entry that follows an entry whose balance is the argument
bankroll_after_fee(balance, fee) == Sub(balance, fee)

\* a debit that takes the position's cost twice
debited_twice(current_bankroll, position_usd) ==
    Sub(current_bankroll, Add(position_usd, position_usd))

\* balance after the trade entry of an entry order
new_bankroll(current_bankroll, position_usd) == Sub(current_bankroll, position_usd)

\* an entry that writes its trading_fee entry even when the fee is zero
entry_fee_always_logged(log, m, position_usd, entry_fee) ==
    LET current_bankroll == get_current_bankroll(log)
        after_trade == new_bankroll(current_bankroll, position_usd)
        log1 == log_bankroll_entry(log, "trade", Neg(position_usd), after_trade, Describe(0, m))
    IN  log_bankroll_entry(log1, "trading_fee", Neg(entry_fee),
                           bankroll_after_fee(after_trade, entry_fee), Describe(0, ""))

\* the bankroll entries of an entry order: the trade debit, then the fee if any
entry_bankroll_updates(log, m, position_usd, entry_fee) ==
    LET current_bankroll == get_current_bankroll(log)
        after_trade == new_bankroll(current_bankroll, position_usd)
        log1 == log_bankroll_entry(log, "trade", Neg(position_usd), after_trade, Describe(0, m))
    IN  IF Gt(entry_fee, Zero)
        THEN log_bankroll_entry(log1, "trading_fee", Neg(entry_fee),
                                bankroll_after_fee(after_trade, entry_fee), Describe(0, ""))
        ELSE log1

\* the ledger updates that follow a placed entry order (both modes)
record_entry(d, intent, fee_rate, trade_id, paper) ==
    LET m == intent.opportunity.market_id
        side == intent.opportunity.side
        entry_fee == Mul(fee_rate, intent.sizing.position_usd)
        t == insert_trade(d.trades, d.markets, trade_id, m, intent.token_id, side,
                          intent.sizing.limit_price, intent.sizing.shares, paper, entry_fee)
    IN  IF ~t.ok THEN [ok |-> FALSE, db |-> d]
        ELSE
        LET u == upsert_position(d.positions, d.markets, m, intent.token_id, side,
                                 intent.sizing.limit_price, intent.sizing.shares)
        IN  IF ~u.ok THEN [ok |-> FALSE, db |-> [d EXCEPT !.trades = t.trades]]
            ELSE [ok |-> TRUE,
                  db |-> [d EXCEPT !.trades = t.trades, !.positions = u.positions,
                                   !.bankroll_log = entry_bankroll_updates(
                                       d.bankroll_log, m, intent.sizing.position_usd, entry_fee)]]

\* uuid::Uuid::new_v4(): an id no trade row carries yet
fresh_uuid(tr) == <<"uuid", Len(tr) + 1>>

execute_paper(d, intent, fee_rate) ==
    record_entry(d, intent, fee_rate, fresh_uuid(d.trades), TRUE)

\* a live entry that books the order without looking at the service's answer
execute_live_unchecked(d, intent, fee_rate, sidecar) ==
    record_entry(d, intent, fee_rate, sidecar.order_id, FALSE)

\* sidecar: the order service's answer, [accepted, order_id]
execute_live(d, intent, fee_rate, sidecar) ==
    IF ~sidecar.accepted THEN [ok |-> FALSE, db |-> d]
    ELSE record_entry(d, intent, fee_rate, sidecar.order_id, FALSE)

execute(mode, d, intent, fee_rate, sidecar) ==
    IF mode = "paper" THEN execute_paper(d, intent, fee_rate)
    ELSE execute_live(d, intent, fee_rate, sidecar)

SellSide(side) == IF side = "YES" THEN "SELL_YES" ELSE "SELL_NO"

exit_bankroll_updates(log, m, proceeds, exit_fee) ==
    LET current_bankroll == get_current_bankroll(log)
        after_exit == Add(current_bankroll, proceeds)
        log1 == log_bankroll_entry(log, "exit", proceeds, after_exit, Describe(0, m))
    IN  IF Gt(exit_fee, Zero)
        THEN log_bankroll_entry(log1, "trading_fee", Neg(exit_fee),
                                bankroll_after_fee(after_exit, exit_fee), Describe(0, ""))
        ELSE log1

\* the ledger updates that follow a placed exit order (both modes)
record_exit(d, position, exit_price, fee_rate, trade_id, paper) ==
    LET m == position.market_condition_id
        t == insert_trade(d.trades, d.markets, trade_id, m, position.token_id,
                          SellSide(position.side), exit_price, position.size, paper, Zero)
    IN  IF ~t.ok THEN [ok |-> FALSE, db |-> d, realized_pnl |-> Zero]
        ELSE
        LET c == close_position(d.positions, m, position.side, exit_price)
            proceeds == Mul(exit_price, position.size)
        IN  IF ~c.ok
            THEN [ok |-> FALSE, db |-> [d EXCEPT !.trades = t.trades], realized_pnl |-> Zero]
            ELSE [ok |-> TRUE, realized_pnl |-> c.realized_pnl,
                  db |-> [d EXCEPT !.trades = t.trades, !.positions = c.positions,
                                   !.bankroll_log = exit_bankroll_updates(
                                       d.bankroll_log, m, proceeds, Mul(fee_rate, proceeds))]]

exit_paper(d, position, exit_price, fee_rate) ==
    record_exit(d, position, exit_price, fee_rate, fresh_uuid(d.trades), TRUE)

exit_live(d, position, exit_price, fee_rate, sidecar) ==
    IF ~sidecar.accepted THEN [ok |-> FALSE, db |-> d, realized_pnl |-> Zero]
    ELSE record_exit(d, position, exit_price, fee_rate, sidecar.order_id, FALSE)

exit_position(mode, d, position, exit_price, fee_rate, sidecar) ==
    IF mode = "paper" THEN exit_paper(d, position, exit_price, fee_rate)
    ELSE exit_live(d, position, exit_price, fee_rate, sidecar)

(***************************************************************************)
(* Position manager (position_manager.rs)                                  *)
(***************************************************************************)
check_stop_loss(pm, pos, current_price) ==
    IF Le(pos.entry_price, Zero) THEN FALSE
    ELSE Gt(Div(Sub(pos.entry_price, current_price), pos.entry_price), pm.stop_loss_pct)

check_take_profit(pm, pos, current_price) ==
    IF Ge(pos.entry_price, One) THEN FALSE
    ELSE Ge(Div(Sub(current_price, pos.entry_price), Sub(One, pos.entry_price)),
            pm.take_profit_pct)

check_edge_decay(pm, pos, current_price) ==
    IF pos.estimated_probability = NULL THEN FALSE
    ELSE Lt(RAbs(Sub(pos.estimated_probability, current_price)), pm.min_exit_edge)

\* a decision that looks at the edge decay before the price checks
evaluate_edge_decay_first(pm, pos, current_price) ==
    IF check_edge_decay(pm, pos, current_price) THEN "Edge decay"
    ELSE IF ~is_weather(pos.market_condition_id) /\ check_stop_loss(pm, pos, current_price)
    THEN "Stop-loss"
    ELSE IF ~is_weather(pos.market_condition_id) /\ check_take_profit(pm, pos, current_price)
    THEN "Take-profit"
    ELSE "Hold"

evaluate_position(pm, pos, current_price) ==
    IF ~is_weather(pos.market_condition_id) /\ check_stop_loss(pm, pos, current_price)
    THEN "Stop-loss"
    ELSE IF ~is_weather(pos.market_condition_id) /\ check_take_profit(pm, pos, current_price)
    THEN "Take-profit"
    ELSE IF check_edge_decay(pm, pos, current_price) THEN "Edge decay"
    ELSE "Hold"

\* the correlation group of a market's city ("" when it has none); the weather
\* markets of the model are a New York and a Boston market
GroupOf(m) == IF is_weather(m) THEN "Northeast" ELSE ""

RECURSIVE GroupExposure(_, _)
GroupExposure(rows, g) ==
    IF rows = <<>> THEN Zero
    ELSE Add(IF GroupOf(Head(rows).market_condition_id) = g
             THEN Mul(Head(rows).entry_price, Head(rows).size) ELSE Zero,
             GroupExposure(Tail(rows), g))

RECURSIVE WeatherExposure(_)
WeatherExposure(rows) ==
    IF rows = <<>> THEN Zero
    ELSE Add(IF is_weather(Head(rows).market_condition_id)
             THEN Mul(Head(rows).entry_price, Head(rows).size) ELSE Zero,
             WeatherExposure(Tail(rows)))

is_correlated_group_over_limit(pm, m, rows, bankroll) ==
    IF Le(bankroll, Zero) THEN FALSE
    ELSE IF ~is_weather(m) THEN FALSE
    ELSE IF GroupOf(m) = "" THEN FALSE
    ELSE Ge(GroupExposure(rows, GroupOf(m)), Mul(pm.max_correlated_exposure_pct, bankroll))

is_total_weather_over_limit(pm, rows, bankroll) ==
    IF Le(bankroll, Zero) THEN FALSE
    ELSE Ge(WeatherExposure(rows), Mul(pm.max_total_weather_exposure_pct, bankroll))

check_drawdown(peaks, current_bankroll, threshold) ==
    LET u == update_peak_bankroll(peaks, current_bankroll)
        drawdown_pct == IF Gt(u.peak, Zero) THEN Div(Sub(u.peak, current_bankroll), u.peak)
                        ELSE Zero
    IN  [peak_bankroll |-> u.peak_bankroll, peak |-> u.peak, drawdown_pct |-> drawdown_pct,
         is_circuit_breaker_active |-> Ge(drawdown_pct, threshold)]

RECURSIVE WeatherLosses(_)
WeatherLosses(log) ==
    IF log = <<>> THEN Zero
    ELSE Add(IF Head(log).entry_type = "trade" /\ Lt(Head(log).amount, Zero)
                /\ Head(log).description.market # ""
                /\ DescMentionsWeather(Head(log).description.market)
             THEN RAbs(Head(log).amount) ELSE Zero,
             WeatherLosses(Tail(log)))

\* all entries of a run fall on one UTC day
get_weather_losses_today(log) == WeatherLosses(log)

(***************************************************************************)
(* The controller (main.rs): configuration, the loop's local variables and *)
(* the environment's answers.                                              *)
(***************************************************************************)
VARIABLES
    pc,            \* position of main
    config,        \* Config::from_env(), fixed for a run
    cycle_number,  \* main's cycle_number
    cycles_run,    \* main's cycles_run
    loc,           \* the local variables of the current iteration
    llm_calls,     \* history: every LLM call that was answered, [cycle, model, cost_usd]
    close_calls,   \* history: the cycle numbers close_cycle was invoked for
    orders,        \* history: the orders the order-placement service accepted
    restarts,      \* how many times the process was killed and started again
    sidecar_child, \* main's handle on the sidecar process: "none", "running", "down"
    client         \* a caller that drives the database API directly: the number of
                   \* its calls, the values it passed to update_peak_bankroll and
                   \* the value the last call returned

vars == <<markets, trades, positions, bankroll_log, cycle_log, api_cost_log,
          peak_bankroll, cycle_opportunities, position_alerts,
          pc, config, cycle_number, cycles_run, loc, llm_calls, close_calls, orders,
          restarts, sidecar_child, client>>

ctlVars == <<pc, config, cycle_number, cycles_run, loc, llm_calls, close_calls, orders>>

\* bounds of the model
MaxCycles == 2
MaxLlmCalls == 5
MaxRestarts == 1
MaxDbCalls == 4
MaxPeakCalls == 5

\* the configurations of the model: Config::from_env() of three deployments
Deployments ==
    {[trading_mode |-> "paper", trading_fee_rate |-> <<1, 10>>, max_cycles |-> <<>>,
      max_api_cost_per_cycle |-> <<2, 1>>, weather_daily_loss_limit |-> <<2, 1>>],
     [trading_mode |-> "live", trading_fee_rate |-> Zero, max_cycles |-> <<>>,
      max_api_cost_per_cycle |-> <<3, 2>>, weather_daily_loss_limit |-> <<3, 1>>],
     [trading_mode |-> "paper", trading_fee_rate |-> Zero, max_cycles |-> <<1>>,
      max_api_cost_per_cycle |-> <<2, 1>>, weather_daily_loss_limit |-> <<2, 1>>]}

Configs ==
    {[trading_mode |-> dep.trading_mode, trading_fee_rate |-> dep.trading_fee_rate,
      max_cycles |-> dep.max_cycles,
      max_api_cost_per_cycle |-> dep.max_api_cost_per_cycle,
      initial_bankroll |-> <<4, 1>>,
      min_edge_threshold |-> <<1, 20>>,
      kelly_fraction |-> One,
      max_position_pct |-> <<1, 2>>,
      max_total_exposure_pct |-> <<3, 4>>,
      stop_loss_pct |-> <<1, 4>>,
      take_profit_pct |-> <<1, 2>>,
      min_exit_edge |-> <<1, 10>>,
      max_correlated_exposure_pct |-> <<1, 2>>,
      max_total_weather_exposure_pct |-> <<1, 2>>,
      weather_daily_loss_limit |-> dep.weather_daily_loss_limit,
      drawdown_circuit_breaker_pct |-> <<1, 2>>,
      drawdown_sizing_reduction |-> <<1, 2>>,
      scanner_weather_only |-> FALSE,
      position_check_enabled |-> TRUE] : dep \in Deployments}

\* what the environment can answer
Quotes == {<<1, 2>>}
Probabilities == {<<1, 4>>, <<1, 2>>, <<3, 4>>, <<7, 8>>}
Confidences == {<<3, 4>>}
TriageCosts == {<<1, 2>>}
AnalysisCosts == {<<1, 2>>}

AllLlmAnswers ==
    {[triage |-> "http_err"]}
    \cup {[triage |-> "skip", tcost |-> tc] : tc \in TriageCosts}
    \cup {[triage |-> "analyze", tcost |-> tc, analysis |-> "http_err"] : tc \in TriageCosts}
    \cup {[triage |-> "analyze", tcost |-> tc, analysis |-> "parse_err", acost |-> ac] :
             tc \in TriageCosts, ac \in AnalysisCosts}
    \cup {[triage |-> "analyze", tcost |-> tc, analysis |-> "ok", acost |-> ac,
           probability |-> p, confidence |-> c] :
             tc \in TriageCosts, ac \in AnalysisCosts, p \in Probabilities, c \in Confidences}

\* the LLM service answers MaxLlmCalls calls of a run, then fails every request
LlmAnswers(answered) ==
    IF answered < MaxLlmCalls THEN AllLlmAnswers ELSE {[triage |-> "http_err"]}

\* priced_markets: the markets whose quote fetch succeeded, in completion order
RECURSIVE SeqsOver(_)
SeqsOver(S) ==
    IF S = {} THEN {<<>>}
    ELSE UNION {{<<x>> \o t : t \in SeqsOver(S \ {x})} : x \in S}

PricedSeqs(ms) ==
    UNION {UNION {{[i \in 1..Len(q) |-> [market |-> q[i], midpoint |-> f[q[i]]]] :
                      f \in [sub -> Quotes]} : q \in SeqsOver(sub)} : sub \in SUBSET ms}

ClientInit == [calls |-> 0, passed |-> <<>>, returned |-> Zero]

LocInit ==
    [markets_vec |-> {}, priced |-> <<>>, est_idx |-> 1,
     cycle_cost |-> Zero, analyses |-> <<>>, opportunities |-> <<>>, opp_idx |-> 1,
     bankroll |-> Zero, current_exposure |-> Zero, effective_kelly |-> Zero,
     open_positions |-> <<>>, weather_breaker_active |-> FALSE, trades_placed |-> 0,
     mgmt_positions |-> <<>>, mgmt_idx |-> 1, exits_triggered |-> <<>>, exit_idx |-> 1,
     midpoint |-> <<>>,
     bankroll_before |-> Zero,
     accounting |-> [bankroll_before |-> Zero, bankroll_after |-> Zero,
                     api_cost |-> Zero, is_alive |-> TRUE]]

\* the state after construction for a deployment drawn from C
InitOf(C) ==
    /\ markets = {}
    /\ trades = <<>>
    /\ positions = <<>>
    /\ bankroll_log = <<>>
    /\ cycle_log = <<>>
    /\ api_cost_log = <<>>
    /\ peak_bankroll = <<>>
    /\ cycle_opportunities = <<>>
    /\ position_alerts = <<>>
    /\ pc = "boot"
    /\ config \in C
    /\ cycle_number = 0
    /\ cycles_run = 0
    /\ loc = LocInit
    /\ llm_calls = <<>>
    /\ close_calls = <<>>
    /\ orders = <<>>
    /\ restarts = 0
    /\ sidecar_child = "none"
    /\ client = ClientInit

Init == InitOf(Configs)

\* main before the loop: seed the bankroll, resume at the next cycle number
Boot ==
    /\ pc = "boot"
    /\ bankroll_log' = ensure_bankroll_seeded(bankroll_log, config.initial_bankroll)
    /\ cycle_number' = get_next_cycle_number(cycle_log)
    /\ cycles_run' = 0
    /\ loc' = LocInit
    /\ sidecar_child' = "running"
    /\ pc' = "scan"
    /\ UNCHANGED <<restarts, client, markets, trades, positions, cycle_log, api_cost_log, peak_bankroll,
                   cycle_opportunities, position_alerts, config, llm_calls, close_calls, orders>>

\* Steps 1, 1.5, 2: scan, upsert the markets, fetch the quotes.  A weather-only
\* deployment scans the weather events: m2 (New York) and m3 (Boston)
Scan ==
    /\ pc = "scan"
    /\ Len(cycle_log) + restarts < MaxCycles
    /\ cycle_number <= MaxCycles
    /\ \E ms \in {{}, IF config.scanner_weather_only THEN {"m2", "m3"} ELSE Markets} :
       \E pr \in PricedSeqs(ms) :
          /\ markets' = markets \cup ms
          /\ loc' = [LocInit EXCEPT !.markets_vec = ms, !.priced = pr]
    /\ pc' = "estimate"
    /\ UNCHANGED <<restarts, sidecar_child, client, trades, positions, bankroll_log, cycle_log, api_cost_log, peak_bankroll,
                   cycle_opportunities, position_alerts, config, cycle_number, cycles_run,
                   llm_calls, close_calls, orders>>

RECURSIVE LogCalls(_, _, _, _)
LogCalls(log, k, m, calls) ==
    IF calls = <<>> THEN log
    ELSE LogCalls(log_api_cost(log, k, m, Head(calls).cost_usd,
                               IF Head(calls).model = "haiku" THEN "triage" ELSE "analysis"),
                  k, m, Tail(calls))

RECURSIVE NoteCalls(_, _, _)
NoteCalls(hist, k, calls) ==
    IF calls = <<>> THEN hist
    ELSE NoteCalls(Append(hist, [cycle_number |-> k, model |-> Head(calls).model,
                                 cost_usd |-> Head(calls).cost_usd]), k, Tail(calls))

\* the api_cost_log after main handled the result r of evaluate for market m
logged_costs(log, k, m, r) ==
    IF r.result = "some" THEN LogCalls(log, k, m, r.api_calls) ELSE log

\* Step 3, one market: evaluate it and log the returned API calls
Estimate ==
    /\ pc = "estimate"
    /\ loc.est_idx <= Len(loc.priced)
    /\ \E llm \in LlmAnswers(Len(llm_calls)) :
        LET pm == loc.priced[loc.est_idx]
            r == evaluate(pm.market, pm.midpoint, loc.cycle_cost,
                          config.max_api_cost_per_cycle, llm)
        IN  /\ llm_calls' = NoteCalls(llm_calls, cycle_number, r.calls)
            /\ api_cost_log' = logged_costs(api_cost_log, cycle_number, pm.market, r)
            /\ loc' = IF r.result = "some"
                      THEN [loc EXCEPT !.est_idx = @ + 1,
                                       !.cycle_cost = Add(@, r.total_cost),
                                       !.analyses = Append(@,
                                           [market_id |-> r.market_id,
                                            probability |-> r.probability,
                                            confidence |-> r.confidence,
                                            market_yes_price |-> r.market_yes_price,
                                            total_cost |-> r.total_cost])]
                      ELSE [loc EXCEPT !.est_idx = @ + 1]
    /\ UNCHANGED <<restarts, sidecar_child, client, markets, trades, positions, bankroll_log, cycle_log, peak_bankroll,
                   cycle_opportunities, position_alerts, pc, config, cycle_number,
                   cycles_run, close_calls, orders>>

\* UPDATE cycle_opportunities SET status, reject_reason
\*   WHERE cycle_number = k AND condition_id = m AND status = 'pending'
\* a status update that leaves every row as it was
status_left_pending(rows, k, m, status, reason) == rows

set_opportunity_status(rows, k, m, status, reason) ==
    [i \in 1..Len(rows) |->
        IF rows[i].cycle_number = k /\ rows[i].condition_id = m /\ rows[i].status = "pending"
        THEN [rows[i] EXCEPT !.status = status, !.reject_reason = reason]
        ELSE rows[i]]

insert_opportunity(rows, k, opp, status) ==
    Append(rows, [cycle_number |-> k, condition_id |-> opp.market_id, side |-> opp.side,
                  market_price |-> opp.market_price,
                  estimated_probability |-> opp.estimated_probability,
                  edge |-> opp.edge, confidence |-> opp.confidence,
                  status |-> status, reject_reason |-> ""])

RECURSIVE InsertOpportunities(_, _, _)
InsertOpportunities(rows, k, opps) ==
    IF opps = <<>> THEN rows
    ELSE InsertOpportunities(insert_opportunity(rows, k, Head(opps), "pending"), k, Tail(opps))

\* main's kelly fraction for the cycle
\* an effective fraction that ignores the drawdown state
kelly_unreduced(cfg, dd) == cfg.kelly_fraction

effective_kelly_of(cfg, dd) ==
    IF dd.is_circuit_breaker_active
    THEN Mul(cfg.kelly_fraction, cfg.drawdown_sizing_reduction)
    ELSE cfg.kelly_fraction

\* Step 4 and the head of Step 5: detect the opportunities, persist them as
\* pending, read the bankroll and exposure, check the drawdown, take the
\* snapshot of open positions and evaluate the weather loss breaker
Detect ==
    /\ pc = "estimate"
    /\ loc.est_idx > Len(loc.priced)
    /\ LET opps == detect_batch(loc.analyses, config.min_edge_threshold,
                                config.trading_fee_rate)
           bankroll == get_current_bankroll(bankroll_log)
           dd == check_drawdown(peak_bankroll, bankroll, config.drawdown_circuit_breaker_pct)
       IN  /\ cycle_opportunities' = InsertOpportunities(cycle_opportunities, cycle_number, opps)
           /\ peak_bankroll' = dd.peak_bankroll
           /\ loc' = [loc EXCEPT !.opportunities = opps, !.opp_idx = 1,
                                 !.bankroll = bankroll,
                                 !.current_exposure = get_total_exposure(positions),
                                 !.effective_kelly = effective_kelly_of(config, dd),
                                 !.open_positions = get_open_positions(positions),
                                 !.weather_breaker_active =
                                     Ge(get_weather_losses_today(bankroll_log),
                                        config.weather_daily_loss_limit),
                                 !.trades_placed = 0]
    /\ pc' = "execute"
    /\ UNCHANGED <<restarts, sidecar_child, client, markets, trades, positions, bankroll_log, cycle_log, api_cost_log,
                   position_alerts, config, cycle_number, cycles_run, llm_calls,
                   close_calls, orders>>

\* find_token_id: the token of the opportunity's side, None when the market lists none
find_token_id(m, side) ==
    IF side = "NO" /\ ~lists_no_token(m) THEN <<>> ELSE <<TokenOf(m, side)>>

\* days until the weather market's date (None for other markets)
days_until(m) == IF is_weather(m) THEN <<1>> ELSE <<>>

\* the answers the order service can give to the next order
SidecarAnswers(mode, placed) ==
    {[accepted |-> a, order_id |-> <<"order", Len(placed) + 1>>] :
        a \in (IF mode = "live" THEN BOOLEAN ELSE {TRUE})}

\* the verdict of main's pre-trade checks for one opportunity: a pair
\* <<status, reject_reason>>, or <<"size", "">> when the opportunity goes to execution
pre_trade_verdict(cfg, l, pos, opp, sizing) ==
    IF is_weather(opp.market_id) /\ l.weather_breaker_active
    THEN <<"rejected", "daily_loss_limit">>
    ELSE IF find_token_id(opp.market_id, opp.side) = <<>>
    THEN <<"skipped", "no_token_id">>
    ELSE IF is_weather(opp.market_id) /\ has_open_position(pos, opp.market_id)
    THEN <<"rejected", "already_positioned">>
    ELSE IF is_correlated_group_over_limit(cfg, opp.market_id, l.open_positions, l.bankroll)
    THEN <<"rejected", "correlation_limit">>
    ELSE IF is_weather(opp.market_id)
            /\ is_total_weather_over_limit(cfg, l.open_positions, l.bankroll)
    THEN <<"rejected", "weather_exposure_limit">>
    ELSE IF sizing.reject_reason # "" THEN <<"rejected", sizing.reject_reason>>
    ELSE <<"size", "">>

\* Step 5, one opportunity of the execution loop
ExecuteOpp ==
    /\ pc = "execute"
    /\ loc.opp_idx <= Len(loc.opportunities)
    /\ \E sidecar \in SidecarAnswers(config.trading_mode, orders) :
        LET opp == loc.opportunities[loc.opp_idx]
            m == opp.market_id
            sizer == [kelly_fraction |-> loc.effective_kelly,
                      max_position_pct |-> config.max_position_pct,
                      max_total_exposure_pct |-> config.max_total_exposure_pct]
            sizing == size_position_with_time(sizer, opp, loc.bankroll,
                                              loc.current_exposure, days_until(m))
            verdict == pre_trade_verdict(config, loc, positions, opp, sizing)
        IN  IF verdict[1] # "size"
            THEN /\ cycle_opportunities' = set_opportunity_status(
                        cycle_opportunities, cycle_number, m, verdict[1], verdict[2])
                 /\ loc' = [loc EXCEPT !.opp_idx = @ + 1]
                 /\ UNCHANGED <<trades, positions, bankroll_log, orders>>
            ELSE
            LET intent == [opportunity |-> opp, token_id |-> TokenOf(m, opp.side),
                           sizing |-> sizing]
                d == [markets |-> markets, trades |-> trades, positions |-> positions,
                      bankroll_log |-> bankroll_log]
                r == execute(config.trading_mode, d, intent, config.trading_fee_rate, sidecar)
                again == upsert_position_with_estimate(
                             r.db.positions, markets, m, intent.token_id, opp.side,
                             sizing.limit_price, sizing.shares, opp.estimated_probability)
                positions2 == IF again.ok THEN again.positions ELSE r.db.positions
            IN  /\ orders' = IF config.trading_mode = "live" /\ sidecar.accepted
                             THEN Append(orders, [order_id |-> sidecar.order_id,
                                                  market |-> m, side |-> opp.side])
                             ELSE orders
                /\ trades' = r.db.trades
                /\ bankroll_log' = r.db.bankroll_log
                /\ IF r.ok
                   THEN /\ cycle_opportunities' = set_opportunity_status(
                               cycle_opportunities, cycle_number, m, "executed", "")
                        /\ positions' = positions2
                        /\ loc' = [loc EXCEPT !.opp_idx = @ + 1,
                                       !.trades_placed = @ + 1,
                                       !.bankroll = get_current_bankroll(r.db.bankroll_log),
                                       !.current_exposure = get_total_exposure(positions2)]
                   ELSE /\ cycle_opportunities' = set_opportunity_status(
                               cycle_opportunities, cycle_number, m, "rejected",
                               "execution_failed")
                        /\ positions' = r.db.positions
                        /\ loc' = [loc EXCEPT !.opp_idx = @ + 1]
    /\ UNCHANGED <<restarts, sidecar_child, client, markets, cycle_log, api_cost_log, peak_bankroll, position_alerts, pc,
                   config, cycle_number, cycles_run, llm_calls, close_calls>>

\* Step 5.5 begins: check_positions reads the open positions once
StartManage ==
    /\ pc = "execute"
    /\ loc.opp_idx > Len(loc.opportunities)
    /\ config.position_check_enabled
    /\ loc' = [loc EXCEPT !.mgmt_positions = get_open_positions(positions),
                          !.mgmt_idx = 1, !.exits_triggered = <<>>, !.exit_idx = 1]
    /\ pc' = "manage"
    /\ UNCHANGED <<restarts, sidecar_child, client, markets, trades, positions, bankroll_log, cycle_log, api_cost_log,
                   peak_bankroll, cycle_opportunities, position_alerts, config,
                   cycle_number, cycles_run, llm_calls, close_calls, orders>>

\* get_midpoint answers: a price, or NULL for a failed request
MidpointAnswers == {<<1, 4>>, <<3, 4>>, NULL}

\* the weather service's fresh probability for a weather position, NULL for none
WeatherRefreshes(m) == IF is_weather(m) THEN {NULL, <<1, 4>>} ELSE {NULL}

log_position_alert(alerts, m, alert_type, details, action_taken, k) ==
    Append(alerts, [market_condition_id |-> m, alert_type |-> alert_type,
                    details |-> details, action_taken |-> action_taken,
                    cycle_number |-> k])

\* check_positions, one position of its snapshot
CheckPosition ==
    /\ pc = "manage"
    /\ loc.mgmt_idx <= Len(loc.mgmt_positions)
    /\ LET pos == loc.mgmt_positions[loc.mgmt_idx]
           m == pos.market_condition_id
       IN  \E price \in MidpointAnswers : \E fresh \in WeatherRefreshes(m) :
             IF price = NULL
             THEN /\ loc' = [loc EXCEPT !.mgmt_idx = @ + 1, !.midpoint = price]
                  /\ UNCHANGED <<positions, position_alerts>>
             ELSE
             LET positions1 == update_position_price(positions, m, pos.side, price)
                 pos_refreshed == IF fresh # NULL
                                  THEN [pos EXCEPT !.estimated_probability = fresh]
                                  ELSE pos
                 positions2 == IF fresh # NULL
                               THEN update_position_estimate(positions1, m, fresh)
                               ELSE positions1
                 action == evaluate_position(config, pos_refreshed, price)
             IN  /\ positions' = positions2
                 /\ IF action = "Hold"
                    THEN /\ loc' = [loc EXCEPT !.mgmt_idx = @ + 1, !.midpoint = price]
                         /\ UNCHANGED position_alerts
                    ELSE /\ position_alerts' = log_position_alert(
                                position_alerts, m, "exit", action, "exit_triggered",
                                cycle_number)
                         /\ loc' = [loc EXCEPT !.mgmt_idx = @ + 1, !.midpoint = price,
                                        !.exits_triggered =
                                            Append(@, [pos |-> pos, reason |-> action])]
    /\ UNCHANGED <<restarts, sidecar_child, client, markets, trades, bankroll_log, cycle_log, api_cost_log, peak_bankroll,
                   cycle_opportunities, pc, config, cycle_number, cycles_run, llm_calls,
                   close_calls, orders>>

\* main's exit price for a triggered exit
exit_price_of(pos) ==
    IF pos.current_price = NULL THEN pos.entry_price ELSE pos.current_price

\* main's loop over mgmt_result.exits_triggered, one exit
ExitStep ==
    /\ pc = "manage"
    /\ loc.mgmt_idx > Len(loc.mgmt_positions)
    /\ loc.exit_idx <= Len(loc.exits_triggered)
    /\ \E sidecar \in SidecarAnswers(config.trading_mode, orders) :
        LET pos == loc.exits_triggered[loc.exit_idx].pos
            d == [markets |-> markets, trades |-> trades, positions |-> positions,
                  bankroll_log |-> bankroll_log]
            r == exit_position(config.trading_mode, d, pos, exit_price_of(pos),
                               config.trading_fee_rate, sidecar)
        IN  /\ orders' = IF config.trading_mode = "live" /\ sidecar.accepted
                         THEN Append(orders, [order_id |-> sidecar.order_id,
                                              market |-> pos.market_condition_id,
                                              side |-> SellSide(pos.side)])
                         ELSE orders
            /\ trades' = r.db.trades
            /\ positions' = r.db.positions
            /\ bankroll_log' = r.db.bankroll_log
    /\ loc' = [loc EXCEPT !.exit_idx = @ + 1]
    /\ UNCHANGED <<restarts, sidecar_child, client, markets, cycle_log, api_cost_log, peak_bankroll, cycle_opportunities,
                   position_alerts, pc, config, cycle_number, cycles_run, llm_calls,
                   close_calls>>

\* check_correlated_exposure: the groups over the limit (one group has members here)
check_correlated_exposure(pm, rows, bankroll) ==
    IF Le(bankroll, Zero) THEN <<>>
    ELSE IF Gt(GroupExposure(rows, "Northeast"), Mul(pm.max_correlated_exposure_pct, bankroll))
    THEN <<"group:Northeast">>
    ELSE <<>>

RECURSIVE LogAlerts(_, _, _)
LogAlerts(alerts, groups, k) ==
    IF groups = <<>> THEN alerts
    ELSE LogAlerts(log_position_alert(alerts, Head(groups), "correlated_exposure",
                                      "over limit", "block_new_trades", k),
                   Tail(groups), k)

\* the end of Step 5.5: the correlation alerts
CorrelationAlerts ==
    /\ pc = "manage"
    /\ loc.mgmt_idx > Len(loc.mgmt_positions)
    /\ loc.exit_idx > Len(loc.exits_triggered)
    /\ position_alerts' = LogAlerts(position_alerts,
                                    check_correlated_exposure(
                                        config, get_open_positions(positions),
                                        get_current_bankroll(bankroll_log)),
                                    cycle_number)
    /\ pc' = "close"
    /\ UNCHANGED <<restarts, sidecar_child, client, markets, trades, positions, bankroll_log, cycle_log, api_cost_log,
                   peak_bankroll, cycle_opportunities, config, cycle_number, cycles_run,
                   loc, llm_calls, close_calls, orders>>

\* Step 6, first half: bankroll_before and close_cycle
CloseCycle ==
    /\ pc = "close"
    /\ LET accounting == close_cycle(bankroll_log, api_cost_log, cycle_number)
       IN  /\ bankroll_log' = accounting.bankroll_log
           /\ loc' = [loc EXCEPT !.bankroll_before = get_current_bankroll(bankroll_log),
                                 !.accounting =
                                     [bankroll_before |-> accounting.bankroll_before,
                                      bankroll_after |-> accounting.bankroll_after,
                                      api_cost |-> accounting.api_cost,
                                      is_alive |-> accounting.is_alive]]
    /\ close_calls' = Append(close_calls, cycle_number)
    /\ pc' = "log"
    /\ UNCHANGED <<restarts, sidecar_child, client, markets, trades, positions, cycle_log, api_cost_log, peak_bankroll,
                   cycle_opportunities, position_alerts, config, cycle_number, cycles_run,
                   llm_calls, orders>>

insert_cycle_log(clog, k, l) ==
    Append(clog, [cycle_number |-> k,
                  markets_scanned |-> Cardinality(l.markets_vec),
                  markets_filtered |-> Len(l.analyses),
                  trades_placed |-> l.trades_placed,
                  api_cost_usd |-> l.accounting.api_cost,
                  bankroll_before |-> l.bankroll_before,
                  bankroll_after |-> l.accounting.bankroll_after])

\* a shutdown that leaves the child alive
leave_running(child) == child

\* SidecarProcess::shutdown: the child is killed and waited for
shutdown(child) == IF child = "running" THEN "down" ELSE child

\* a cap compared with the cycles run before this one
after_one_more_cycle(cfg, l, run) ==
    IF ~l.accounting.is_alive THEN "dead"
    ELSE IF cfg.max_cycles # <<>> /\ run >= cfg.max_cycles[1] THEN "stopped"
    ELSE "sleep"

\* where main goes after the cycle summary
after_cycle(cfg, l, run) ==
    IF ~l.accounting.is_alive THEN "dead"
    ELSE IF cfg.max_cycles # <<>> /\ run + 1 >= cfg.max_cycles[1] THEN "stopped"
    ELSE "sleep"

\* Step 6, second half: the cycle_log row, the death check, the cycle counters
LogCycle ==
    /\ pc = "log"
    /\ cycle_log' = insert_cycle_log(cycle_log, cycle_number, loc)
    /\ pc' = after_cycle(config, loc, cycles_run)
    /\ sidecar_child' = IF after_cycle(config, loc, cycles_run) = "sleep"
                        THEN sidecar_child ELSE shutdown(sidecar_child)
    /\ IF loc.accounting.is_alive
       THEN /\ cycle_number' = cycle_number + 1
            /\ cycles_run' = cycles_run + 1
       ELSE UNCHANGED <<cycle_number, cycles_run>>
    /\ UNCHANGED <<restarts, client, markets, trades, positions, bankroll_log, api_cost_log, peak_bankroll,
                   cycle_opportunities, position_alerts, config, loc, llm_calls,
                   close_calls, orders>>

\* the adaptive sleep ran out: the loop starts the next cycle
Sleep ==
    /\ pc = "sleep"
    /\ pc' = "scan"
    /\ UNCHANGED <<restarts, sidecar_child, client, dbVars, config, cycle_number, cycles_run, loc, llm_calls, close_calls,
                   orders>>

\* Ctrl+C during the sleep: the ctrl_c branch of the select completes first
CtrlC ==
    /\ pc = "sleep"
    /\ sidecar_child' = shutdown(sidecar_child)
    /\ pc' = "stopped"
    /\ UNCHANGED <<restarts, client, dbVars, config, cycle_number, cycles_run, loc, llm_calls, close_calls,
                   orders>>

Next ==
    \/ Boot
    \/ Scan
    \/ Estimate
    \/ Detect
    \/ ExecuteOpp
    \/ StartManage
    \/ CheckPosition
    \/ ExitStep
    \/ CorrelationAlerts
    \/ CloseCycle
    \/ LogCycle
    \/ Sleep
    \/ CtrlC

Spec == Init /\ [][Next]_vars

(***************************************************************************)
(* Ledger reads that fail.  Inside the loop main reads the ledger with the *)
(* ? operator at Step 5 (get_current_bankroll, get_total_exposure) and at  *)
(* Step 6 (get_current_bankroll, close_cycle): an Err there is returned    *)
(* from main and the process exits with it.                                *)
(***************************************************************************)
\* Steps 4 and 5 head with a failing read: the opportunities are already
\* inserted as pending when get_current_bankroll()? returns the error
DetectReadFails ==
    /\ pc = "estimate"
    /\ loc.est_idx > Len(loc.priced)
    /\ LET opps == detect_batch(loc.analyses, config.min_edge_threshold,
                                config.trading_fee_rate)
       IN  /\ cycle_opportunities' = InsertOpportunities(cycle_opportunities, cycle_number, opps)
           /\ loc' = [loc EXCEPT !.opportunities = opps, !.opp_idx = 1]
    /\ pc' = "failed"
    /\ UNCHANGED <<restarts, sidecar_child, client, markets, trades, positions, bankroll_log, cycle_log, api_cost_log,
                   peak_bankroll, position_alerts, config, cycle_number, cycles_run, llm_calls,
                   close_calls, orders>>

\* Step 6 with a failing get_current_bankroll()? or close_cycle(..)?: every
\* statement of close_cycle that can fail comes before its only write
CloseCycleFails ==
    /\ pc = "close"
    /\ pc' = "failed"
    /\ UNCHANGED <<restarts, sidecar_child, client, dbVars, config, cycle_number, cycles_run, loc, llm_calls,
                   close_calls, orders>>

\* Steps 1, 1.5, 2 with every upsert_market returning an error: main warns
\* and goes on with the scanned markets, which the markets table may not hold
ScanUpsertFails ==
    /\ pc = "scan"
    /\ Len(cycle_log) + restarts < MaxCycles
    /\ cycle_number <= MaxCycles
    /\ \E pr \in PricedSeqs(Markets) :
          loc' = [LocInit EXCEPT !.markets_vec = Markets, !.priced = pr]
    /\ pc' = "estimate"
    /\ UNCHANGED <<restarts, sidecar_child, client, dbVars, config, cycle_number, cycles_run,
                   llm_calls, close_calls, orders>>

\* Step 6, second half, with the INSERT INTO cycle_log returning an error:
\* main warns and goes on to the death check and the counters
LogCycleInsertFails ==
    /\ pc = "log"
    /\ cycle_number < MaxCycles
    /\ pc' = after_cycle(config, loc, cycles_run)
    /\ sidecar_child' = IF after_cycle(config, loc, cycles_run) = "sleep"
                        THEN sidecar_child ELSE shutdown(sidecar_child)
    /\ IF loc.accounting.is_alive
       THEN /\ cycle_number' = cycle_number + 1
            /\ cycles_run' = cycles_run + 1
       ELSE UNCHANGED <<cycle_number, cycles_run>>
    /\ UNCHANGED <<restarts, client, dbVars, config, loc, llm_calls, close_calls, orders>>

NextFaults ==
    \/ Next
    \/ DetectReadFails
    \/ CloseCycleFails
    \/ ScanUpsertFails
    \/ LogCycleInsertFails

SpecFaults == Init /\ [][NextFaults]_vars

(***************************************************************************)
(* A weather-only deployment (SCANNER_WEATHER_ONLY=true) with a bankroll   *)
(* of 8, positions and correlation groups of at most a quarter of it and   *)
(* no total exposure cap below the bankroll: the sizer admits two weather  *)
(* entries in one cycle.                                                   *)
(***************************************************************************)
InitWeather ==
    InitOf({[c EXCEPT !.scanner_weather_only = TRUE,
                      !.initial_bankroll = <<8, 1>>,
                      !.max_position_pct = <<1, 4>>,
                      !.max_correlated_exposure_pct = <<1, 4>>,
                      !.max_total_exposure_pct = One] :
               c \in {x \in Configs : x.trading_mode = "paper" /\ x.max_cycles = <<>>}})

SpecWeather == InitWeather /\ [][Next]_vars

(***************************************************************************)
(* The process is killed (or has exited) and is started again on the same  *)
(* database: main runs from its first line, the tables keep what was       *)
(* written.                                                                *)
(***************************************************************************)
Crash ==
    /\ pc # "boot"
    /\ restarts < MaxRestarts
    /\ restarts' = restarts + 1
    /\ pc' = "boot"
    /\ loc' = LocInit
    /\ cycle_number' = 0
    /\ cycles_run' = 0
    /\ sidecar_child' = "none"
    /\ UNCHANGED <<dbVars, config, llm_calls, close_calls, orders, client>>

NextCrash == Next \/ Crash

\* the restarted process is studied for the live deployment
InitCrash == Init /\ config.trading_mode = "live"

SpecCrash == InitCrash /\ [][NextCrash]_vars

(***************************************************************************)
(* The database API driven directly, as the tests of db.rs drive it: any   *)
(* sequence of position operations, any sequence of peak updates.          *)
(***************************************************************************)
EntryPrices == {<<1, 4>>, <<1, 2>>}
CurrentPrices == {<<1, 2>>, <<3, 4>>}
Sizes == {<<2, 1>>}
Estimates == {NULL, <<3, 4>>}
PeakValues == {<<1, 1>>, <<2, 1>>, <<3, 1>>}

\* a database whose markets table holds the scanned markets
InitDb ==
    /\ markets = Markets
    /\ trades = <<>>
    /\ positions = <<>>
    /\ bankroll_log = <<>>
    /\ cycle_log = <<>>
    /\ api_cost_log = <<>>
    /\ peak_bankroll = <<>>
    /\ cycle_opportunities = <<>>
    /\ position_alerts = <<>>
    /\ pc = "client"
    /\ config \in {c \in Configs : c.trading_mode = "live"}
    /\ cycle_number = 0
    /\ cycles_run = 0
    /\ loc = LocInit
    /\ llm_calls = <<>>
    /\ close_calls = <<>>
    /\ orders = <<>>
    /\ restarts = 0
    /\ sidecar_child = "none"
    /\ client = ClientInit

DbUpsertPosition ==
    /\ client.calls < MaxDbCalls
    /\ \E m \in Markets : \E side \in Sides : \E price \in EntryPrices : \E size \in Sizes :
         /\ positions' = upsert_position(positions, markets, m, TokenOf(m, side), side,
                                         price, size).positions
         /\ client' = [client EXCEPT !.calls = @ + 1,
                                     !.passed = [fn |-> "upsert_position", m |-> m,
                                                 side |-> side, entry_price |-> price,
                                                 size |-> size]]
    /\ UNCHANGED <<markets, trades, bankroll_log, cycle_log, api_cost_log, peak_bankroll,
                   cycle_opportunities, position_alerts, ctlVars, restarts, sidecar_child>>

DbUpsertPositionWithEstimate ==
    /\ client.calls < MaxDbCalls
    /\ \E m \in Markets : \E side \in Sides : \E price \in EntryPrices : \E size \in Sizes :
       \E est \in Estimates :
         /\ positions' = upsert_position_with_estimate(positions, markets, m,
                                                       TokenOf(m, side), side, price, size,
                                                       est).positions
         /\ client' = [client EXCEPT !.calls = @ + 1,
                                     !.passed = [fn |-> "upsert_position_with_estimate",
                                                 m |-> m, side |-> side,
                                                 entry_price |-> price, size |-> size]]
    /\ UNCHANGED <<markets, trades, bankroll_log, cycle_log, api_cost_log, peak_bankroll,
                   cycle_opportunities, position_alerts, ctlVars, restarts, sidecar_child>>

DbUpdatePositionPrice ==
    /\ client.calls < MaxDbCalls
    /\ \E m \in Markets : \E side \in Sides : \E price \in CurrentPrices :
         positions' = update_position_price(positions, m, side, price)
    /\ client' = [client EXCEPT !.calls = @ + 1, !.passed = [fn |-> "update_position_price"]]
    /\ UNCHANGED <<markets, trades, bankroll_log, cycle_log, api_cost_log, peak_bankroll,
                   cycle_opportunities, position_alerts, ctlVars, restarts, sidecar_child>>

DbClosePosition ==
    /\ client.calls < MaxDbCalls
    /\ \E m \in Markets : \E side \in Sides : \E price \in CurrentPrices :
         positions' = close_position(positions, m, side, price).positions
    /\ client' = [client EXCEPT !.calls = @ + 1, !.passed = [fn |-> "close_position"]]
    /\ UNCHANGED <<markets, trades, bankroll_log, cycle_log, api_cost_log, peak_bankroll,
                   cycle_opportunities, position_alerts, ctlVars, restarts, sidecar_child>>

NextPositions ==
    \/ DbUpsertPosition
    \/ DbUpsertPositionWithEstimate
    \/ DbUpdatePositionPrice
    \/ DbClosePosition

SpecPositions == InitDb /\ [][NextPositions]_vars

DbUpdatePeakBankroll ==
    /\ client.calls < MaxPeakCalls
    /\ \E current \in PeakValues :
         LET u == update_peak_bankroll(peak_bankroll, current)
         IN  /\ peak_bankroll' = u.peak_bankroll
             /\ client' = [calls |-> client.calls + 1,
                           passed |-> Append(client.passed, current),
                           returned |-> u.peak]
    /\ UNCHANGED <<markets, trades, positions, bankroll_log, cycle_log, api_cost_log,
                   cycle_opportunities, position_alerts, ctlVars, restarts, sidecar_child>>

SpecPeak == InitDb /\ [][DbUpdatePeakBankroll]_vars

(***************************************************************************)
(* The accountant and the executor driven directly on a seeded ledger, as  *)
(* the tests of accounting.rs and executor.rs drive them.  client.passed   *)
(* holds the last call and its arguments, client.returned its result.      *)
(***************************************************************************)
MaxLedgerCalls == 3

DbEnsureBankrollSeeded ==
    /\ bankroll_log = <<>>
    /\ bankroll_log' = ensure_bankroll_seeded(bankroll_log, config.initial_bankroll)
    /\ UNCHANGED <<markets, trades, positions, cycle_log, api_cost_log, peak_bankroll,
                   cycle_opportunities, position_alerts, ctlVars, restarts, sidecar_child, client>>

DbLogApiCost ==
    /\ client.calls < MaxLedgerCalls
    /\ \E k \in 1..2 :
         /\ api_cost_log' = log_api_cost(api_cost_log, k, "", <<1, 10>>, "triage")
         /\ client' = [calls |-> client.calls + 1,
                       passed |-> [fn |-> "log_api_cost", cycle |-> k],
                       returned |-> Zero]
    /\ UNCHANGED <<markets, trades, positions, bankroll_log, cycle_log, peak_bankroll,
                   cycle_opportunities, position_alerts, ctlVars, restarts, sidecar_child>>

DbCloseCycle ==
    /\ client.calls < MaxLedgerCalls
    /\ \E k \in 1..2 :
         LET r == close_cycle(bankroll_log, api_cost_log, k)
         IN  /\ bankroll_log' = r.bankroll_log
             /\ client' = [calls |-> client.calls + 1,
                           passed |-> [fn |-> "close_cycle", cycle |-> k],
                           returned |-> [bankroll_before |-> r.bankroll_before,
                                         bankroll_after |-> r.bankroll_after,
                                         api_cost |-> r.api_cost,
                                         is_alive |-> r.is_alive]]
    /\ UNCHANGED <<markets, trades, positions, cycle_log, api_cost_log, peak_bankroll,
                   cycle_opportunities, position_alerts, ctlVars, restarts, sidecar_child>>

\* Executor::execute for one TradeIntent, in either mode and with either fee rate
DbExecute ==
    /\ client.calls < MaxLedgerCalls
    /\ \E mode \in {"paper", "live"} : \E fee_rate \in {Zero, <<1, 10>>} :
       \E m \in Markets : \E side \in {"YES"} : \E price \in EntryPrices :
       \E sidecar \in SidecarAnswers(mode, orders) :
         LET intent == [opportunity |-> [market_id |-> m, side |-> side],
                        token_id |-> TokenOf(m, side),
                        sizing |-> [limit_price |-> price, shares |-> <<2, 1>>,
                                    position_usd |-> Mul(price, <<2, 1>>)]]
             d == [markets |-> markets, trades |-> trades, positions |-> positions,
                   bankroll_log |-> bankroll_log]
             r == execute(mode, d, intent, fee_rate, sidecar)
         IN  /\ trades' = r.db.trades
             /\ positions' = r.db.positions
             /\ bankroll_log' = r.db.bankroll_log
             /\ orders' = IF mode = "live" /\ sidecar.accepted
                          THEN Append(orders, [order_id |-> sidecar.order_id,
                                               market |-> m, side |-> side])
                          ELSE orders
             /\ client' = [calls |-> client.calls + 1,
                           passed |-> [fn |-> "execute", mode |-> mode,
                                       fee_rate |-> fee_rate, intent |-> intent,
                                       sidecar |-> sidecar],
                           returned |-> [ok |-> r.ok]]
    /\ UNCHANGED <<markets, cycle_log, api_cost_log, peak_bankroll, cycle_opportunities,
                   position_alerts, pc, config, cycle_number, cycles_run, loc, llm_calls,
                   close_calls, restarts, sidecar_child>>

\* Executor::exit_position for a position row read from the ledger: an open
\* one, or one closed since it was read
DbExitPosition ==
    /\ client.calls < MaxLedgerCalls
    /\ \E mode \in {"paper", "live"} : \E fee_rate \in {Zero, <<1, 10>>} :
       \E i \in 1..Len(positions) :
       \E exit_price \in CurrentPrices :
       \E sidecar \in SidecarAnswers(mode, orders) :
         LET position == positions[i]
             d == [markets |-> markets, trades |-> trades, positions |-> positions,
                   bankroll_log |-> bankroll_log]
             r == exit_position(mode, d, position, exit_price, fee_rate, sidecar)
         IN  /\ trades' = r.db.trades
             /\ positions' = r.db.positions
             /\ bankroll_log' = r.db.bankroll_log
             /\ orders' = IF mode = "live" /\ sidecar.accepted
                          THEN Append(orders, [order_id |-> sidecar.order_id,
                                               market |-> position.market_condition_id,
                                               side |-> SellSide(position.side)])
                          ELSE orders
             /\ client' = [calls |-> client.calls + 1,
                           passed |-> [fn |-> "exit_position", mode |-> mode,
                                       fee_rate |-> fee_rate, position |-> position,
                                       exit_price |-> exit_price, sidecar |-> sidecar],
                           returned |-> [ok |-> r.ok, realized_pnl |-> r.realized_pnl]]
    /\ UNCHANGED <<markets, cycle_log, api_cost_log, peak_bankroll, cycle_opportunities,
                   position_alerts, pc, config, cycle_number, cycles_run, loc, llm_calls,
                   close_calls, restarts, sidecar_child>>

NextLedger ==
    \/ DbEnsureBankrollSeeded
    \/ DbLogApiCost
    \/ DbCloseCycle
    \/ DbExecute
    \/ DbExitPosition

SpecLedger == InitDb /\ [][NextLedger]_vars

\* the bankrolls a cycle can start its sizing with
BankrollValues == {Zero, <<1, 1>>, <<2, 1>>, <<3, 1>>, <<4, 1>>}
MaxDrawdownCalls == 4

\* main's drawdown state and effective kelly of one cycle, for the bankroll the
\* cycle reads: check_drawdown either answers, or fails on its insert and main
\* goes on with None.  client.passed holds the bankrolls of the cycles so far,
\* client.returned the drawdown state (NULL for None) and fraction of each
CycleSizer ==
    /\ client.calls < MaxDrawdownCalls
    /\ \E bankroll \in BankrollValues : \E ok \in BOOLEAN :
         LET dd == check_drawdown(peak_bankroll, bankroll, config.drawdown_circuit_breaker_pct)
             effective_kelly == IF ok THEN effective_kelly_of(config, dd)
                                ELSE config.kelly_fraction
         IN  /\ peak_bankroll' = IF ok THEN dd.peak_bankroll ELSE peak_bankroll
             /\ loc' = [loc EXCEPT !.bankroll = bankroll, !.effective_kelly = effective_kelly]
             /\ client' = [calls |-> client.calls + 1,
                           passed |-> Append(client.passed, bankroll),
                           returned |->
                               Append(IF client.calls = 0 THEN <<>> ELSE client.returned,
                                      [state |-> IF ok
                                                 THEN [peak_bankroll |-> dd.peak,
                                                       drawdown_pct |-> dd.drawdown_pct,
                                                       is_circuit_breaker_active |->
                                                           dd.is_circuit_breaker_active]
                                                 ELSE NULL,
                                       effective_kelly |-> effective_kelly])]
    /\ cycle_number' = cycle_number + 1
    /\ UNCHANGED <<markets, trades, positions, bankroll_log, cycle_log, api_cost_log,
                   cycle_opportunities, position_alerts, pc, config, cycles_run, llm_calls,
                   close_calls, orders, restarts, sidecar_child>>

SpecDrawdown == InitDb /\ [][CycleSizer]_vars

(***************************************************************************)
(* The pure functions, each applied once to inputs drawn from small sets.  *)
(* client.passed holds the call and its arguments, client.returned the     *)
(* result.                                                                 *)
(***************************************************************************)
\* Estimator::evaluate for a spend so far below, at and above the budget
CallEvaluate ==
    /\ client.calls = 0
    /\ \E m \in Markets, cost_so_far \in {Zero, <<1, 2>>, One, <<3, 2>>},
          max_cost \in {One, <<3, 2>>}, llm \in AllLlmAnswers :
         client' = [calls |-> 1,
                    passed |-> [fn |-> "evaluate", m |-> m, cost_so_far |-> cost_so_far,
                                max_cost |-> max_cost, llm |-> llm],
                    returned |-> evaluate(m, <<1, 2>>, cost_so_far, max_cost, llm)]
    /\ UNCHANGED <<dbVars, ctlVars, restarts, sidecar_child>>

\* PositionSizer::size_position_with_time.  A NO at a market price of 1 is
\* left out: its buy_price is 0 and the f64 share count is infinite.
CallSizer ==
    /\ client.calls = 0
    /\ \E side \in Sides, market_price \in {<<1, 4>>, <<1, 2>>, <<3, 4>>, One},
          estimated_probability \in {<<1, 4>>, <<1, 2>>, <<3, 4>>},
          bankroll \in {Zero, <<2, 1>>, <<4, 1>>, <<8, 1>>},
          current_exposure \in {Zero, One, <<3, 1>>, <<6, 1>>},
          days \in {<<>>, <<1>>, <<3>>, <<6>>, <<9>>},
          kelly_fraction \in {<<1, 2>>, One} :
         /\ ~(side = "NO" /\ market_price = One)
         /\ LET sizer == [kelly_fraction |-> kelly_fraction, max_position_pct |-> <<1, 2>>,
                          max_total_exposure_pct |-> <<3, 4>>]
                opp == [side |-> side, market_price |-> market_price,
                        estimated_probability |-> estimated_probability]
            IN  client' = [calls |-> 1,
                           passed |-> [fn |-> "size_position_with_time", sizer |-> sizer,
                                       opp |-> opp, bankroll |-> bankroll,
                                       current_exposure |-> current_exposure, days |-> days],
                           returned |-> size_position_with_time(sizer, opp, bankroll,
                                                                current_exposure, days)]
    /\ UNCHANGED <<dbVars, ctlVars, restarts, sidecar_child>>

\* EdgeDetector::detect for estimates below, at and above the market price
CallDetect ==
    /\ client.calls = 0
    /\ \E m \in Markets, probability \in {<<1, 4>>, <<2, 5>>, <<1, 2>>, <<3, 5>>, <<3, 4>>},
          market_yes_price \in {<<1, 2>>, <<3, 5>>},
          confidence \in {<<2, 5>>, <<1, 2>>, <<3, 4>>},
          thr \in {Zero, <<1, 10>>}, fee \in {Zero, <<1, 20>>} :
         LET a == [market_id |-> m, probability |-> probability, confidence |-> confidence,
                   market_yes_price |-> market_yes_price]
         IN  client' = [calls |-> 1,
                        passed |-> [fn |-> "detect", analysis |-> a,
                                    min_edge_threshold |-> thr, fee_rate |-> fee],
                        returned |-> detect(a, thr, fee)]
    /\ UNCHANGED <<dbVars, ctlVars, restarts, sidecar_child>>

\* PositionManager::evaluate_position for a weather and a non-weather
\* position, prices at and around each threshold
CallEvaluatePosition ==
    /\ client.calls = 0
    /\ \E m \in Markets, entry_price \in {<<1, 4>>, <<1, 2>>},
          current_price \in {<<1, 8>>, <<3, 8>>, <<2, 5>>, <<1, 2>>, <<3, 5>>, <<3, 4>>},
          est \in {NULL, <<1, 8>>, <<1, 2>>, <<3, 4>>} :
         LET pos == NewPosition(m, TokenOf(m, "YES"), "YES", entry_price, <<2, 1>>, est)
         IN  client' = [calls |-> 1,
                        passed |-> [fn |-> "evaluate_position", pos |-> pos,
                                    current_price |-> current_price],
                        returned |-> evaluate_position(config, pos, current_price)]
    /\ UNCHANGED <<dbVars, ctlVars, restarts, sidecar_child>>

NextPure ==
    \/ CallEvaluate
    \/ CallSizer
    \/ CallDetect
    \/ CallEvaluatePosition

SpecPure == InitDb /\ [][NextPure]_vars

(***************************************************************************)
(* The HTTP clients on their own: Step 2 of main, which prices the scanned *)
(* markets through a buffer of pending get_market_prices futures           *)
(* (loc holds the stream, the buffer and the number of results), and the   *)
(* retry loops of ClobClient::get_with_retry and Estimator::call_claude    *)
(* (client.passed holds the function and the responses of its attempts,    *)
(* client.returned the state of the call).                                 *)
(***************************************************************************)
MaxQuoteMarkets == 6

\* .buffer_unordered(5)
buffer_unordered == 5

\* max_retries of ClobClient::new and the default of ESTIMATOR_MAX_RETRIES
max_retries == 2

\* Step 2 begins: the markets that list a Yes token form the stream
QuoteBegin ==
    /\ pc = "client"
    /\ pc' = "quote"
    /\ \E n \in 0..MaxQuoteMarkets :
         loc' = [stream |-> n, in_progress |-> <<>>, collected |-> 0]
    /\ UNCHANGED <<dbVars, config, cycle_number, cycles_run, llm_calls, close_calls, orders,
                   restarts, sidecar_child, client>>

\* the buffer takes the next future of the stream while it holds fewer than
\* buffer_unordered of them; get_market_prices joins three requests, which
\* all go out when the future is first polled
QuoteSpawn ==
    /\ pc = "quote"
    /\ loc.stream > 0
    /\ Len(loc.in_progress) < buffer_unordered
    /\ loc' = [loc EXCEPT !.stream = @ - 1,
                          !.in_progress = Append(@, {"midpoint", "BUY", "SELL"})]
    /\ UNCHANGED <<dbVars, pc, config, cycle_number, cycles_run, llm_calls, close_calls,
                   orders, restarts, sidecar_child, client>>

\* one request of one future gets its answer (or fails for good); the future
\* whose last request it was completes and leaves the buffer
QuoteResponse ==
    /\ pc = "quote"
    /\ \E i \in 1..Len(loc.in_progress) : \E r \in loc.in_progress[i] :
         LET rest == loc.in_progress[i] \ {r}
         IN  loc' = IF rest = {}
                    THEN [loc EXCEPT !.in_progress =
                                        SubSeq(@, 1, i - 1) \o SubSeq(@, i + 1, Len(@)),
                                     !.collected = @ + 1]
                    ELSE [loc EXCEPT !.in_progress[i] = rest]
    /\ UNCHANGED <<dbVars, pc, config, cycle_number, cycles_run, llm_calls, close_calls,
                   orders, restarts, sidecar_child, client>>

\* what the server can answer to one attempt; status 0 stands for a request
\* that failed without a response (send() returned Err)
Responses ==
    {[status |-> st, parsable |-> TRUE] : st \in {0, 404, 429, 500, 503}}
    \cup {[status |-> 200, parsable |-> p] : p \in BOOLEAN}

\* an attempt after which every failed request is tried again
attempt_retrying_every_error(resp) ==
    IF resp.status >= 200 /\ resp.status <= 299 THEN "return" ELSE "continue"

\* one iteration of the loop of get_with_retry: how it leaves the match
\* (is_success is 200..299, is_server_error is 500..599)
get_with_retry_attempt(resp) ==
    IF resp.status = 0 THEN "continue"
    ELSE IF resp.status >= 200 /\ resp.status <= 299 THEN "return"
    ELSE IF resp.status = 429 \/ (resp.status >= 500 /\ resp.status <= 599) THEN "continue"
    ELSE "bail"

\* one iteration of the loop of call_claude
call_claude_attempt(resp) ==
    IF resp.status = 0 THEN "continue"
    ELSE IF resp.status >= 200 /\ resp.status <= 299 THEN "return"
    ELSE IF resp.status = 429 \/ resp.status >= 500 THEN "continue"
    ELSE "bail"

HttpCall ==
    /\ pc = "client"
    /\ pc' = "http"
    /\ \E fn \in {"get_with_retry", "call_claude"} :
         client' = [calls |-> 1, passed |-> [fn |-> fn, attempts |-> <<>>],
                    returned |-> [state |-> "running"]]
    /\ UNCHANGED <<dbVars, config, cycle_number, cycles_run, loc, llm_calls, close_calls,
                   orders, restarts, sidecar_child>>

\* one attempt of the running call (for attempt in 0..=max_retries)
HttpAttempt ==
    /\ pc = "http"
    /\ client.returned.state = "running"
    /\ \E resp \in Responses :
         LET attempts == Append(client.passed.attempts, resp)
             how == IF client.passed.fn = "get_with_retry"
                    THEN get_with_retry_attempt(resp) ELSE call_claude_attempt(resp)
         IN  client' = [client EXCEPT
                 !.passed.attempts = attempts,
                 !.returned =
                     IF how = "return"
                     THEN [state |-> IF resp.parsable THEN "ok" ELSE "parse_error",
                           of |-> resp]
                     ELSE IF how = "bail" THEN [state |-> "error", of |-> resp]
                     ELSE IF Len(attempts) > max_retries
                     THEN [state |-> "error", of |-> resp]
                     ELSE [state |-> "running"]]
    /\ UNCHANGED <<dbVars, pc, config, cycle_number, cycles_run, loc, llm_calls,
                   close_calls, orders, restarts, sidecar_child>>

NextClients ==
    \/ QuoteBegin
    \/ QuoteSpawn
    \/ QuoteResponse
    \/ HttpCall
    \/ HttpAttempt

SpecClients == InitDb /\ [][NextClients]_vars

(***************************************************************************)
(* Properties                                                              *)
(***************************************************************************)
EntryTypes == {bankroll_log[i].entry_type : i \in 1..Len(bankroll_log)}

\* the api_cost bankroll entries that close_cycle appended for cycle K
ApiCostEntries(K) ==
    {i \in 1..Len(bankroll_log) : /\ bankroll_log[i].entry_type = "api_cost"
                                  /\ bankroll_log[i].description.cycle = K}

\* the cost of the LLM calls answered during cycle K
RECURSIVE LlmCost(_, _)
LlmCost(calls, K) ==
    IF calls = <<>> THEN Zero
    ELSE Add(IF Head(calls).cycle_number = K THEN Head(calls).cost_usd ELSE Zero,
             LlmCost(Tail(calls), K))

\* C1: every bankroll_log row N >= 2 satisfies balance_after[N] =
\* balance_after[N-1] + amount[N], and get_current_bankroll returns the
\* balance_after of the most recent row.
C1_LedgerChain ==
    /\ \A N \in 2..Len(bankroll_log) :
          bankroll_log[N].balance_after =
              Add(bankroll_log[N - 1].balance_after, bankroll_log[N].amount)
    /\ bankroll_log # <<>> =>
          get_current_bankroll(bankroll_log) = bankroll_log[Len(bankroll_log)].balance_after

\* C1 witness: a ledger written by the seed, an entry order with its fee, an
\* exit and a cycle close
C1_Witness == {"seed", "trade", "trading_fee", "exit", "api_cost"} \subseteq EntryTypes

\* C2: the cycle_log row of cycle K carries the sum of the api_cost_log rows of
\* K, and that sum is what the single api_cost bankroll entry of K debited (no
\* entry when the sum is 0).
C2_CycleCostIsTheSingleDebit ==
    \A r \in 1..Len(cycle_log) :
        LET K == cycle_log[r].cycle_number
            sum == CostSum(api_cost_log, K)
        IN  /\ cycle_log[r].api_cost_usd = sum
            /\ IF sum = Zero THEN ApiCostEntries(K) = {}
               ELSE /\ Cardinality(ApiCostEntries(K)) = 1
                    /\ \A i \in ApiCostEntries(K) : bankroll_log[i].amount = Neg(sum)

\* C3: every LLM call of a cycle has its api_cost_log record, so the cost a
\* closed cycle debited is the total cost of the LLM calls made in that cycle.
C3_EveryLlmCallIsLogged ==
    /\ Len(api_cost_log) = Len(llm_calls)
    /\ \A r \in 1..Len(cycle_log) :
          cycle_log[r].api_cost_usd = LlmCost(llm_calls, cycle_log[r].cycle_number)

\* C4: close_cycle is invoked at most once for each cycle number, also across
\* a kill and restart, so no cycle's API cost is debited twice.
C4_CloseCycleOncePerCycle ==
    /\ \A i, j \in 1..Len(close_calls) : i # j => close_calls[i] # close_calls[j]
    /\ \A K \in 1..(MaxCycles + 1) : Cardinality(ApiCostEntries(K)) <= 1

\* C5 as stated: the current bankroll is never negative.
C5_BankrollNeverNegative ==
    \A N \in 1..Len(bankroll_log) : Ge(bankroll_log[N].balance_after, Zero)

\* C5 amended: only the api_cost entry of close_cycle takes the balance below
\* zero; no trade, trading_fee or exit entry does.
C5_OnlyApiCostGoesBelowZero ==
    \A N \in 2..Len(bankroll_log) :
        (Ge(bankroll_log[N - 1].balance_after, Zero) /\ Lt(bankroll_log[N].balance_after, Zero))
            => bankroll_log[N].entry_type = "api_cost"

\* C5 witness: a ledger with trade and fee entries whose api_cost entry took
\* the balance below zero
C5_Witness ==
    /\ {"trade", "trading_fee"} \subseteq EntryTypes
    /\ \E N \in 2..Len(bankroll_log) :
          /\ bankroll_log[N].entry_type = "api_cost"
          /\ Lt(bankroll_log[N].balance_after, Zero)

\* the cycle_log row that closes the current cycle is the last one written
CycleRowWritten ==
    /\ cycle_log # <<>>
    /\ cycle_log[Len(cycle_log)].cycle_number = cycle_number

C7_NoPendingAfterClose ==
    \A i \in 1..Len(cycle_opportunities) :
        cycle_opportunities[i].status = "pending" =>
            \A r \in 1..Len(cycle_log) :
                cycle_log[r].cycle_number # cycle_opportunities[i].cycle_number

\* C8: at most one open position per (market_condition_id, side).
C8_OneOpenPositionPerPair ==
    \A m \in Markets : \A side \in Sides : Cardinality(OpenIdx(positions, m, side)) <= 1

\* C8 witness: a pair that was closed, opened again and added to
C8_Witness ==
    \E i, j \in 1..Len(positions) :
        /\ positions[i].status = "closed"
        /\ positions[j].status = "open"
        /\ positions[i].market_condition_id = positions[j].market_condition_id
        /\ positions[i].side = positions[j].side
        /\ Gt(positions[j].size, <<2, 1>>)

\* C9: every open position with a current_price has
\* unrealized_pnl = (current_price - entry_price) * size.
C9_UnrealizedPnlIsCurrent ==
    \A i \in 1..Len(positions) :
        (positions[i].status = "open" /\ positions[i].current_price # NULL) =>
            positions[i].unrealized_pnl =
                Mul(Sub(positions[i].current_price, positions[i].entry_price),
                    positions[i].size)

RECURSIVE MaxOf(_)
MaxOf(vals) ==
    IF Len(vals) = 1 THEN vals[1] ELSE RMax(Head(vals), MaxOf(Tail(vals)))

\* the values of a sequence that are strictly higher than all before them
RECURSIVE Records(_)
Records(vals) ==
    IF vals = <<>> THEN <<>>
    ELSE LET front == SubSeq(vals, 1, Len(vals) - 1)
             last == vals[Len(vals)]
         IN  IF front = <<>> \/ Gt(last, MaxOf(front))
             THEN Append(Records(front), last)
             ELSE Records(front)

\* C10: the peak rows are non-decreasing, a row is appended only on the first
\* call or for a strictly higher value, and each call returns the maximum of
\* the values passed so far.
C10_PeakIsRunningMaximum ==
    /\ \A i \in 2..Len(peak_bankroll) : Le(peak_bankroll[i - 1], peak_bankroll[i])
    /\ peak_bankroll = Records(client.passed)
    /\ client.passed # <<>> => client.returned = MaxOf(client.passed)

\* C10 witness: calls with a lower value after a higher one and with a value
\* equal to the stored peak, two rows appended
C10_Witness ==
    /\ Len(peak_bankroll) = 2
    /\ \E i \in 2..Len(client.passed) : Lt(client.passed[i], client.passed[i - 1])
    /\ \E i \in 2..Len(client.passed) : client.passed[i] = peak_bankroll[Len(peak_bankroll)]
                                        /\ client.passed[i - 1] = client.passed[i]

SeedEntries == {i \in 1..Len(bankroll_log) : bankroll_log[i].entry_type = "seed"}

\* C11: ensure_bankroll_seeded appends a seed entry only to an empty ledger:
\* however often it runs, and whatever was written in between, a ledger that
\* has rows has exactly one seed entry, it is the first row, and its amount and
\* balance_after are the amount given.
C11_SeededOnce ==
    (pc # "boot" \/ bankroll_log # <<>>) =>
        /\ SeedEntries = {1}
        /\ bankroll_log[1].amount = config.initial_bankroll
        /\ bankroll_log[1].balance_after = config.initial_bankroll

\* C11 witness: the process started a second time on a ledger that already
\* held trade and api_cost entries, and ensure_bankroll_seeded ran again
C11_Witness ==
    /\ restarts = 1
    /\ pc = "scan"
    /\ {"trade", "api_cost"} \subseteq EntryTypes

\* C12: once the loop runs, no failure of a ledger operation or of an external
\* call ends the process: it never leaves the loop with an error, it ends only
\* dead, at the cycle cap or on Ctrl+C.
C12_LoopSurvivesFailures == pc # "failed"

Called(fn) == client.calls = 1 /\ client.passed.fn = fn

\* the analysis calls among the LLM calls of an evaluate result
AnalysisCalls(r) == {i \in 1..Len(r.calls) : r.calls[i].model = "sonnet"}

\* C13: evaluate makes no LLM call when cost_so_far >= max_cost; after triage
\* it makes no analysis call on Skip or when cost_so_far + triage_cost >=
\* max_cost; only otherwise it analyses, and a result it returns has
\* total_cost = triage cost + analysis cost.
C13_BudgetGates ==
    Called("evaluate") =>
        LET p == client.passed
            r == client.returned
            answered == p.llm.triage # "http_err"
            second_gate == answered /\ (p.llm.triage = "skip"
                                        \/ Ge(Add(p.cost_so_far, p.llm.tcost), p.max_cost))
        IN  /\ Ge(p.cost_so_far, p.max_cost) => (r.result = "none" /\ r.calls = <<>>)
            /\ (Lt(p.cost_so_far, p.max_cost) /\ second_gate) =>
                   (r.result = "none" /\ AnalysisCalls(r) = {} /\ Len(r.calls) = 1)
            /\ (Lt(p.cost_so_far, p.max_cost) /\ answered /\ ~second_gate
                   /\ p.llm.analysis = "ok") =>
                   /\ r.result = "some"
                   /\ Cardinality(AnalysisCalls(r)) = 1
                   /\ r.total_cost = Add(p.llm.tcost, p.llm.acost)
            /\ r.result = "some" => (Lt(p.cost_so_far, p.max_cost) /\ ~second_gate)

\* C13 witness: a triage that answered Analyze took the spend exactly to the
\* budget, and evaluate stopped before the analysis
C13_Witness ==
    /\ Called("evaluate")
    /\ Lt(client.passed.cost_so_far, client.passed.max_cost)
    /\ client.passed.llm.triage = "analyze"
    /\ Add(client.passed.cost_so_far, client.passed.llm.tcost) = client.passed.max_cost
    /\ client.returned.result = "none"

\* the price paid per share for the side of an opportunity
BuyPrice(opp) == IF opp.side = "YES" THEN opp.market_price ELSE Sub(One, opp.market_price)

\* the exposure room max(max_total_exposure_pct * bankroll - current_exposure, 0)
ExposureRoom(p) ==
    RMax(Sub(Mul(p.sizer.max_total_exposure_pct, p.bankroll), p.current_exposure), Zero)

\* C14: an accepted sizing has position_usd = min(adjusted_kelly * bankroll,
\* max_position_pct * bankroll, max(max_total_exposure_pct * bankroll -
\* current_exposure, 0)) >= 1, limit_price = buy_price and shares =
\* position_usd / buy_price; a rejected one has a reason and zero in every
\* numeric field.
C14_SizingResult ==
    Called("size_position_with_time") =>
        LET p == client.passed
            r == client.returned
        IN  IF r.reject_reason = ""
            THEN /\ r.position_usd = RMin(RMin(Mul(r.adjusted_kelly, p.bankroll),
                                               Mul(p.sizer.max_position_pct, p.bankroll)),
                                          ExposureRoom(p))
                 /\ Ge(r.position_usd, One)
                 /\ r.limit_price = BuyPrice(p.opp)
                 /\ r.shares = Div(r.position_usd, BuyPrice(p.opp))
            ELSE /\ r.raw_kelly = Zero /\ r.adjusted_kelly = Zero /\ r.position_usd = Zero
                 /\ r.shares = Zero /\ r.limit_price = Zero

\* C14 witness: an accepted sizing of a NO opportunity that the per-position
\* cap decided, and not the Kelly stake or the exposure room
C14_Witness ==
    /\ Called("size_position_with_time")
    /\ client.returned.reject_reason = ""
    /\ client.passed.opp.side = "NO"
    /\ client.returned.position_usd =
           Mul(client.passed.sizer.max_position_pct, client.passed.bankroll)
    /\ Lt(client.returned.position_usd, ExposureRoom(client.passed))
    /\ Lt(client.returned.position_usd,
          Mul(client.returned.adjusted_kelly, client.passed.bankroll))

\* C15: with no exposure room left (current_exposure >= max_total_exposure_pct
\* * bankroll, the cap itself and a bankroll of 0 included) the sizer rejects.
C15_NoRoomRejects ==
    Called("size_position_with_time") =>
        LET p == client.passed
        IN  (Ge(p.current_exposure, Mul(p.sizer.max_total_exposure_pct, p.bankroll))
               \/ p.bankroll = Zero)
                => client.returned.reject_reason # ""

\* C15 witness: an opportunity with positive Kelly, a positive bankroll and an
\* exposure exactly at the cap, rejected for the exposure limit
C15_Witness ==
    /\ Called("size_position_with_time")
    /\ Gt(client.passed.bankroll, Zero)
    /\ client.passed.current_exposure =
           Mul(client.passed.sizer.max_total_exposure_pct, client.passed.bankroll)
    /\ client.returned.reject_reason = "exposure limit reached"

\* the step is a call of one of the two upserts
UpsertCalled ==
    /\ client'.calls = client.calls + 1
    /\ client'.passed.fn \in {"upsert_position", "upsert_position_with_estimate"}

\* C16: an upsert on a (market, side) with an open row replaces that row in
\* place with new_size = old_size + size and new_entry = (old_entry * old_size
\* + entry_price * size) / new_size, so the cost basis grows by entry_price *
\* size; with no open row it inserts a new open row with the given entry_price
\* and size.
C16_UpsertAggregates ==
    [][UpsertCalled =>
         LET a == client'.passed
         IN  IF OpenIdx(positions, a.m, a.side) # {}
             THEN LET i == FirstOpen(positions, a.m, a.side)
                      old == positions[i]
                      new == positions'[i]
                  IN  /\ Len(positions') = Len(positions)
                      /\ \A j \in 1..Len(positions) : j # i => positions'[j] = positions[j]
                      /\ new.status = "open"
                      /\ new.size = Add(old.size, a.size)
                      /\ new.entry_price =
                             Div(Add(Mul(old.entry_price, old.size), Mul(a.entry_price, a.size)),
                                 new.size)
                      /\ Mul(new.entry_price, new.size) =
                             Add(Mul(old.entry_price, old.size), Mul(a.entry_price, a.size))
             ELSE /\ Len(positions') = Len(positions) + 1
                  /\ SubSeq(positions', 1, Len(positions)) = positions
                  /\ positions'[Len(positions')].status = "open"
                  /\ positions'[Len(positions')].market_condition_id = a.m
                  /\ positions'[Len(positions')].side = a.side
                  /\ positions'[Len(positions')].entry_price = a.entry_price
                  /\ positions'[Len(positions')].size = a.size]_vars

\* C16 witness: both upserts added to an open row at a price other than its
\* entry price, after a closed row of the same pair
C16_Witness ==
    /\ client.calls >= 3
    /\ client.passed.fn = "upsert_position_with_estimate"
    /\ \E i, j \in 1..Len(positions) :
          /\ i < j
          /\ positions[i].status = "closed" /\ positions[j].status = "open"
          /\ positions[i].market_condition_id = positions[j].market_condition_id
          /\ positions[i].side = positions[j].side
          /\ positions[j].size = <<4, 1>>
          /\ positions[j].entry_price = <<3, 8>>

\* C17: detect returns an opportunity iff net_edge >= min_edge_threshold and
\* confidence >= min_confidence, with edge = max(est - mkt, mkt - est) and
\* net_edge = edge - 2 * fee_rate; the side is YES when est - mkt >= mkt - est
\* and NO otherwise; an edge equal to the threshold is accepted at fee_rate 0.
C17_DetectDecision ==
    Called("detect") =>
        LET p == client.passed
            r == client.returned
            yes_edge == Sub(p.analysis.probability, p.analysis.market_yes_price)
            no_edge == Sub(p.analysis.market_yes_price, p.analysis.probability)
            edge == RMax(yes_edge, no_edge)
            net_edge == Sub(edge, Mul(<<2, 1>>, p.fee_rate))
        IN  /\ r # <<>> <=> (Ge(net_edge, p.min_edge_threshold)
                              /\ Ge(p.analysis.confidence, min_confidence))
            /\ r # <<>> =>
                  /\ r[1].edge = edge
                  /\ r[1].net_edge = net_edge
                  /\ r[1].side = IF Ge(yes_edge, no_edge) THEN "YES" ELSE "NO"

\* C17 witness: at fee_rate 0 an estimate whose edge equals the threshold is
\* accepted, on the NO side
C17_Witness ==
    /\ Called("detect")
    /\ client.passed.fee_rate = Zero
    /\ Gt(client.passed.min_edge_threshold, Zero)
    /\ client.returned # <<>>
    /\ client.returned[1].side = "NO"
    /\ client.returned[1].edge = client.passed.min_edge_threshold

\* the detections detect accepts for a sequence of analyses, in their order
RECURSIVE Accepted(_, _, _)
Accepted(as, thr, fee) ==
    IF as = <<>> THEN <<>>
    ELSE LET front == SubSeq(as, 1, Len(as) - 1)
         IN  Accepted(front, thr, fee) \o detect(as[Len(as)], thr, fee)

\* the cycle_opportunities row of the current cycle for a market has left pending
Processed(m) ==
    \E i \in 1..Len(cycle_opportunities) :
        /\ cycle_opportunities[i].cycle_number = cycle_number
        /\ cycle_opportunities[i].condition_id = m
        /\ cycle_opportunities[i].status # "pending"

\* C18: the opportunities of a cycle are exactly the detections detect accepts
\* for the cycle's analyses, ordered by net_edge descending, and the execute
\* loop processes them in that order.
C18_BatchSortedAndProcessedInOrder ==
    pc = "execute" =>
        LET opps == loc.opportunities
            acc == Accepted(loc.analyses, config.min_edge_threshold, config.trading_fee_rate)
        IN  /\ Len(opps) = Len(acc)
            /\ {opps[i] : i \in 1..Len(opps)} = {acc[i] : i \in 1..Len(acc)}
            /\ \A i, j \in 1..Len(opps) : i < j => Ge(opps[i].net_edge, opps[j].net_edge)
            /\ \A i \in 1..Len(opps) : Processed(opps[i].market_id) <=> i < loc.opp_idx

\* C18 witness: two analyses were accepted in the reverse order of their
\* net edges, the batch put the larger one first and the loop has processed it
C18_Witness ==
    /\ pc = "execute"
    /\ Len(loc.opportunities) = 2
    /\ loc.opp_idx = 2
    /\ Gt(loc.opportunities[1].net_edge, loc.opportunities[2].net_edge)
    /\ loc.analyses[1].market_id = loc.opportunities[2].market_id

\* C19: evaluate_position takes the first match of: stop-loss ((entry -
\* current) / entry > stop_loss_pct), take-profit ((current - entry) / (1 -
\* entry) >= take_profit_pct), edge decay (|estimate - current| <
\* min_exit_edge, with a stored estimate), else Hold; for a weather position
\* only the edge decay is looked at.
C19_FirstMatchWins ==
    Called("evaluate_position") =>
        LET pos == client.passed.pos
            cur == client.passed.current_price
            weather == is_weather(pos.market_condition_id)
            stop == Gt(Div(Sub(pos.entry_price, cur), pos.entry_price), config.stop_loss_pct)
            take == Ge(Div(Sub(cur, pos.entry_price), Sub(One, pos.entry_price)),
                       config.take_profit_pct)
            decay == /\ pos.estimated_probability # NULL
                     /\ Lt(RAbs(Sub(pos.estimated_probability, cur)), config.min_exit_edge)
        IN  client.returned =
                IF ~weather /\ stop THEN "Stop-loss"
                ELSE IF ~weather /\ take THEN "Take-profit"
                ELSE IF decay THEN "Edge decay"
                ELSE "Hold"

\* C19 witness: a position past its stop-loss whose edge has also decayed
\* exits for the stop-loss
C19_Witness ==
    /\ Called("evaluate_position")
    /\ client.returned = "Stop-loss"
    /\ client.passed.pos.estimated_probability = client.passed.current_price

\* C20: close_cycle for a cycle whose api_cost_log sum is 0 appends no
\* bankroll_log row and leaves the ledger as it is, returning bankroll_after =
\* bankroll_before and api_cost = 0.
C20_ZeroCostCycleWritesNothing ==
    [][(pc = "close" /\ pc' = "log"
          /\ get_cycle_api_cost(api_cost_log, cycle_number) = Zero) =>
            /\ UNCHANGED dbVars
            /\ loc'.accounting.api_cost = Zero
            /\ loc'.accounting.bankroll_before = get_current_bankroll(bankroll_log)
            /\ loc'.accounting.bankroll_after = loc'.accounting.bankroll_before]_vars

\* C20 witness: the second cycle closed without any logged API cost on a
\* ledger that holds the api_cost entry of the first
C20_Witness ==
    /\ pc = "log"
    /\ cycle_number = 2
    /\ loc.accounting.api_cost = Zero
    /\ ApiCostEntries(1) # {}
    /\ ApiCostEntries(2) = {}

\* C21: close_cycle is not idempotent.  A second call for the same cycle whose
\* cost is positive recomputes the same cost, appends a second api_cost entry
\* of -cost, starts from the balance the first call left
\* (bankroll_before of the second = bankroll_after of the first) and ends
\* cost lower.
C21_SecondCloseDeductsAgain ==
    [][(/\ client.calls > 0
        /\ client'.calls = client.calls + 1
        /\ client.passed.fn = "close_cycle"
        /\ client'.passed.fn = "close_cycle"
        /\ client'.passed.cycle = client.passed.cycle
        /\ Gt(client.returned.api_cost, Zero))
       => (/\ client'.returned.api_cost = client.returned.api_cost
           /\ client'.returned.bankroll_before = client.returned.bankroll_after
           /\ client'.returned.bankroll_after =
                  Sub(client.returned.bankroll_after, client.returned.api_cost)
           /\ bankroll_log' =
                  Append(bankroll_log,
                         [entry_type |-> "api_cost",
                          amount |-> Neg(client.returned.api_cost),
                          balance_after |-> client'.returned.bankroll_after,
                          description |-> Describe(client.passed.cycle, "")]))]_vars

\* a cycle closed twice: two api_cost entries for the same cycle
C21_Witness ==
    /\ client.calls > 0
    /\ client.passed.fn = "close_cycle"
    /\ \E i, j \in 1..Len(bankroll_log) :
         /\ i < j
         /\ bankroll_log[i].entry_type = "api_cost"
         /\ bankroll_log[j].entry_type = "api_cost"
         /\ bankroll_log[i].description = bankroll_log[j].description
         /\ bankroll_log[j].description.cycle = client.passed.cycle

\* the step is a call of fn through the direct-call interface
LedgerCall(fn) ==
    client'.calls = client.calls + 1 /\ client'.passed.fn = fn

\* the open size of the (m, side) position, zero when there is none
OpenSize(pos, m, side) ==
    IF OpenIdx(pos, m, side) = {} THEN Zero ELSE pos[FirstOpen(pos, m, side)].size

\* C22: a successful execute (paper mode, or live mode after a 2xx answer)
\* appends exactly one trade row for the intent, upserts the (market, side)
\* position with limit_price and shares, appends one trade entry of
\* -position_usd and one trading_fee entry of -(fee_rate * position_usd)
\* exactly when that fee is positive; the bankroll goes down by
\* position_usd + fee.
C22_ExecuteWritesTheEntry ==
    [][(LedgerCall("execute") /\ client'.returned.ok)
       => LET a == client'.passed
              m == a.intent.opportunity.market_id
              side == a.intent.opportunity.side
              s == a.intent.sizing
              fee == Mul(a.fee_rate, s.position_usd)
              before == get_current_bankroll(bankroll_log)
              row == trades'[Len(trades')]
              tradeEntry == [entry_type |-> "trade", amount |-> Neg(s.position_usd),
                             balance_after |-> Sub(before, s.position_usd),
                             description |-> Describe(0, m)]
              feeEntry == [entry_type |-> "trading_fee", amount |-> Neg(fee),
                           balance_after |-> Sub(Sub(before, s.position_usd), fee),
                           description |-> Describe(0, "")]
          IN  /\ Len(trades') = Len(trades) + 1
              /\ SubSeq(trades', 1, Len(trades)) = trades
              /\ row.market_condition_id = m /\ row.side = side
              /\ row.price = s.limit_price /\ row.size = s.shares
              /\ row.paper = (a.mode = "paper")
              /\ a.mode = "live" => a.sidecar.accepted /\ row.trade_id = a.sidecar.order_id
              /\ Cardinality(OpenIdx(positions', m, side)) = 1
              /\ OpenSize(positions', m, side) = Add(OpenSize(positions, m, side), s.shares)
              /\ OpenIdx(positions, m, side) = {}
                 => positions'[FirstOpen(positions', m, side)].entry_price = s.limit_price
              /\ bankroll_log' = IF Gt(fee, Zero)
                                 THEN bankroll_log \o <<tradeEntry, feeEntry>>
                                 ELSE Append(bankroll_log, tradeEntry)
              /\ get_current_bankroll(bankroll_log') =
                     Sub(before, Add(s.position_usd, fee))]_vars

\* a live order placed with a positive fee: the fee entry is the last one
C22_Witness ==
    /\ client.calls > 0
    /\ client.passed.fn = "execute"
    /\ client.returned.ok
    /\ client.passed.mode = "live"
    /\ Gt(client.passed.fee_rate, Zero)
    /\ bankroll_log[Len(bankroll_log)].entry_type = "trading_fee"

\* C23: a successful exit_position for the open row of a position appends one
\* trade row with side SELL_<side>, closes the position (status closed,
\* realized_pnl = (exit_price - entry_price) * size, unrealized_pnl = 0),
\* appends one exit entry crediting exit_price * size and one trading_fee
\* entry of -(fee_rate * proceeds) exactly when that fee is positive;
\* afterwards the (market, side) pair has no open position.
C23_ExitClosesThePosition ==
    [][(LedgerCall("exit_position") /\ client'.returned.ok
        /\ client'.passed.position.status = "open")
       => LET a == client'.passed
              p == a.position
              m == p.market_condition_id
              proceeds == Mul(a.exit_price, p.size)
              fee == Mul(a.fee_rate, proceeds)
              pnl == Mul(Sub(a.exit_price, p.entry_price), p.size)
              before == get_current_bankroll(bankroll_log)
              row == trades'[Len(trades')]
              exitEntry == [entry_type |-> "exit", amount |-> proceeds,
                            balance_after |-> Add(before, proceeds),
                            description |-> Describe(0, m)]
              feeEntry == [entry_type |-> "trading_fee", amount |-> Neg(fee),
                           balance_after |-> Sub(Add(before, proceeds), fee),
                           description |-> Describe(0, "")]
          IN  /\ Len(trades') = Len(trades) + 1
              /\ SubSeq(trades', 1, Len(trades)) = trades
              /\ row.market_condition_id = m /\ row.side = SellSide(p.side)
              /\ row.side \in {"SELL_YES", "SELL_NO"}
              /\ row.price = a.exit_price /\ row.size = p.size
              /\ Len(positions') = Len(positions)
              /\ \A i \in 1..Len(positions) :
                    IF i \in OpenIdx(positions, m, p.side)
                    THEN /\ positions'[i].status = "closed"
                         /\ positions'[i].realized_pnl = pnl
                         /\ positions'[i].unrealized_pnl = Zero
                    ELSE positions'[i] = positions[i]
              /\ client'.returned.realized_pnl = pnl
              /\ OpenIdx(positions', m, p.side) = {}
              /\ bankroll_log' = IF Gt(fee, Zero)
                                 THEN bankroll_log \o <<exitEntry, feeEntry>>
                                 ELSE Append(bankroll_log, exitEntry)]_vars

\* a position bought and then sold at a gain, with a fee on the proceeds
C23_Witness ==
    /\ client.calls > 1
    /\ client.passed.fn = "exit_position"
    /\ client.passed.position.status = "open"
    /\ client.returned.ok
    /\ Gt(client.returned.realized_pnl, Zero)
    /\ Gt(client.passed.fee_rate, Zero)
    /\ \E i \in 1..Len(positions) : positions[i].status = "closed"

\* C24: in live mode an order the service did not accept (a non-2xx answer or
\* a failed request), on entry or on exit, makes the call return an error and
\* leaves the ledger unchanged: no trade row, no position change, no bankroll
\* entry.
C24_RefusedOrderLeavesLedger ==
    [][((LedgerCall("execute") \/ LedgerCall("exit_position"))
        /\ client'.passed.mode = "live"
        /\ ~client'.passed.sidecar.accepted)
       => (~client'.returned.ok /\ UNCHANGED dbVars /\ UNCHANGED orders)]_vars

\* an exit order refused by the service while the position stays open
C24_Witness ==
    /\ client.calls > 1
    /\ client.passed.fn = "exit_position"
    /\ client.passed.mode = "live"
    /\ ~client.passed.sidecar.accepted
    /\ ~client.returned.ok
    /\ OpenIdx(positions, client.passed.position.market_condition_id,
               client.passed.position.side) # {}

\* the trade rows carrying the order id oid
RowsOf(oid) == {i \in 1..Len(trades) : trades[i].trade_id = oid}

\* C25: the trades table has exactly one row per placed order.  In live mode
\* every order the order-placement service accepted has one trade row
\* carrying the returned order id, also when a ledger step of the same cycle
\* failed earlier, and no live trade row exists for an order that was not
\* accepted.
C25_OneTradeRowPerAcceptedOrder ==
    /\ \A i \in 1..Len(orders) : Cardinality(RowsOf(orders[i].order_id)) = 1
    /\ \A j \in 1..Len(trades) :
          ~trades[j].paper => \E i \in 1..Len(orders) : orders[i].order_id = trades[j].trade_id

\* the opportunity the execute loop decides next
NextOpp == loc.opportunities[loc.opp_idx]

\* the ledger, at this moment, holds the group of m at or over its cap
GroupAtCapInLedger(m) ==
    /\ Gt(get_current_bankroll(bankroll_log), Zero)
    /\ Ge(GroupExposure(get_open_positions(positions), GroupOf(m)),
          Mul(config.max_correlated_exposure_pct, get_current_bankroll(bankroll_log)))

\* C26: in the execute loop no entry is executed for a weather opportunity
\* whose correlation group is at or over its cap at the moment of the
\* decision, counting the open positions in the ledger, those opened earlier
\* in the same cycle included: the opportunity is refused with reason
\* correlation_limit (stated for the opportunities that reach the check: the
\* daily-loss breaker is off, the token is listed, the market has no open
\* position).
C26_GroupAtCapBlocksEntry ==
    [][(/\ pc = "execute"
        /\ loc.opp_idx <= Len(loc.opportunities)
        /\ loc'.opp_idx = loc.opp_idx + 1
        /\ is_weather(NextOpp.market_id)
        /\ ~loc.weather_breaker_active
        /\ find_token_id(NextOpp.market_id, NextOpp.side) # <<>>
        /\ ~has_open_position(positions, NextOpp.market_id)
        /\ GroupAtCapInLedger(NextOpp.market_id))
       => (/\ trades' = trades
           /\ positions' = positions
           /\ \E i \in 1..Len(cycle_opportunities') :
                 /\ cycle_opportunities'[i].cycle_number = cycle_number
                 /\ cycle_opportunities'[i].condition_id = NextOpp.market_id
                 /\ cycle_opportunities'[i].status = "rejected"
                 /\ cycle_opportunities'[i].reject_reason = "correlation_limit")]_vars

\* C27: the cycle_log cycle numbers are contiguous from 1, each number
\* appearing exactly once, across completed cycles and restarts: the i-th row
\* carries the number i.
C27_CycleNumbersContiguous ==
    \A i \in 1..Len(cycle_log) : cycle_log[i].cycle_number = i

\* C28: a Ctrl+C that arrives during the end-of-cycle sleep pre-empts the
\* sleep: the controller shuts the sidecar down and terminates without
\* starting another cycle and without any further ledger write; the
\* controller stops on cancellation only from that sleep window, never from
\* the middle of a cycle's steps (the only other stop is the cycle cap, after
\* the cycle summary).
C28_CtrlCPreemptsSleep ==
    [][/\ (pc = "sleep" /\ pc' = "stopped")
          => (/\ sidecar_child' = "down"
              /\ UNCHANGED dbVars
              /\ UNCHANGED <<cycle_number, cycles_run, llm_calls, close_calls, orders>>)
       /\ pc # "stopped"
       /\ (pc' = "stopped")
          => (pc = "sleep" \/ (pc = "log" /\ config.max_cycles # <<>>))]_vars

\* the run of a deployment without a cycle cap stopped by Ctrl+C after a cycle
C28_Witness ==
    /\ pc = "stopped"
    /\ config.max_cycles = <<>>
    /\ sidecar_child = "down"
    /\ Len(cycle_log) >= 1
    /\ cycle_number = Len(cycle_log) + 1

RECURSIVE InFlight(_)
\* the requests of the buffered futures that are out at the quote service
InFlight(futures) ==
    IF futures = <<>> THEN 0 ELSE Cardinality(Head(futures)) + InFlight(Tail(futures))

\* C29: during the Quote step at most 5 requests to the quote service are in
\* flight at any time, whatever the number of markets being priced.
C29_AtMostFiveRequestsInFlight ==
    pc = "quote" => InFlight(loc.in_progress) <= 5

\* a response after which the claim allows a further attempt
Retriable(resp) ==
    resp.status = 0 \/ resp.status = 429 \/ (resp.status >= 500 /\ resp.status <= 599)

\* C30: get_with_retry and call_claude make at most max_retries + 1 attempts;
\* a further attempt follows only a 429, a 5xx or a transport failure; a 2xx
\* response ends the call at once with its parsed or parse-failed result, any
\* other 4xx ends it at once with an error; when every attempt was retriable
\* the call returns the last error.
C30_RetryPolicy ==
    pc = "http" =>
        LET a == client.passed.attempts
            n == Len(a)
            r == client.returned
        IN  /\ n <= max_retries + 1
            /\ \A i \in 1..(n - 1) : Retriable(a[i])
            /\ n = 0 => r.state = "running"
            /\ n > 0 =>
                 /\ (a[n].status >= 200 /\ a[n].status <= 299)
                    => r = [state |-> IF a[n].parsable THEN "ok" ELSE "parse_error",
                            of |-> a[n]]
                 /\ (a[n].status >= 400 /\ a[n].status <= 499 /\ a[n].status # 429)
                    => r = [state |-> "error", of |-> a[n]]
                 /\ (Retriable(a[n]) /\ n <= max_retries) => r.state = "running"
                 /\ (Retriable(a[n]) /\ n = max_retries + 1)
                    => r = [state |-> "error", of |-> a[n]]

\* call_claude gave up after max_retries + 1 retriable answers, the last a 503
C30_Witness ==
    /\ pc = "http"
    /\ client.passed.fn = "call_claude"
    /\ Len(client.passed.attempts) = max_retries + 1
    /\ client.passed.attempts[1].status = 0
    /\ client.passed.attempts[max_retries + 1].status = 503
    /\ client.returned.state = "error"

\* the step is the execute loop handling one opportunity whose order was booked
EntryExecuted ==
    /\ pc = "execute"
    /\ loc.opp_idx <= Len(loc.opportunities)
    /\ loc'.opp_idx = loc.opp_idx + 1
    /\ Len(trades') = Len(trades) + 1

\* C31: after the controller executes an entry of s shares at limit price p
\* for a (market, side) that had no open position, the ledger's open position
\* for that pair has size s and entry_price p, and get_total_exposure has
\* grown by exactly p * s, the position_usd debited for that trade.
C31_EntryBooksItsShares ==
    [][(EntryExecuted
        /\ OpenIdx(positions, NextOpp.market_id, NextOpp.side) = {})
       => LET row == trades'[Len(trades')]
              m == NextOpp.market_id
              side == NextOpp.side
          IN  /\ OpenIdx(positions', m, side) # {}
              /\ positions'[FirstOpen(positions', m, side)].size = row.size
              /\ positions'[FirstOpen(positions', m, side)].entry_price = row.price
              /\ get_total_exposure(positions') =
                     Add(get_total_exposure(positions), Mul(row.price, row.size))]_vars

\* the position whose triggered exit main handles next, as check_positions
\* handed it over, and the quote fetched for it in this cycle, which
\* update_position_price stored in its ledger row
ExitPos == loc.exits_triggered[loc.exit_idx].pos
ExitQuote ==
    positions[FirstOpen(positions, ExitPos.market_condition_id, ExitPos.side)].current_price

\* C32: when the position manager triggers an exit on the basis of the quote q
\* it fetched in this cycle, the controller exits the position at q: the SELL
\* trade row's price, the realized P&L and the exit bankroll credit all use q,
\* not the price stored before this cycle's refresh and not the entry price.
C32_ExitAtTheFetchedQuote ==
    [][(/\ pc = "manage"
        /\ loc.mgmt_idx > Len(loc.mgmt_positions)
        /\ loc.exit_idx <= Len(loc.exits_triggered)
        /\ loc'.exit_idx = loc.exit_idx + 1
        /\ Len(trades') = Len(trades) + 1
        /\ Len(bankroll_log') > Len(bankroll_log))
       => LET q == ExitQuote
              i == FirstOpen(positions, ExitPos.market_condition_id, ExitPos.side)
          IN  /\ trades'[Len(trades')].price = q
              /\ positions'[i].realized_pnl =
                     Mul(Sub(q, positions[i].entry_price), positions[i].size)
              /\ bankroll_log'[Len(bankroll_log) + 1].entry_type = "exit"
              /\ bankroll_log'[Len(bankroll_log) + 1].amount = Mul(q, positions[i].size)]_vars

\* C33: in the execute loop every call to the sizer receives bankroll and
\* current_exposure equal to the ledger's balance and to the sum of
\* entry_price * size over its open positions at that moment, so the sizing of
\* the k-th opportunity reflects every entry executed for the earlier ones.
C33_SizerSeesTheLedger ==
    (pc = "execute" /\ loc.opp_idx <= Len(loc.opportunities))
    => (/\ loc.bankroll = get_current_bankroll(bankroll_log)
        /\ loc.current_exposure =
               ExposureOf(SelectSeq(positions, LAMBDA r : r.status = "open")))

\* the second opportunity of a cycle is about to be sized after an entry
C33_Witness ==
    /\ pc = "execute"
    /\ loc.opp_idx = 2
    /\ Len(loc.opportunities) = 2
    /\ loc.trades_placed = 1
    /\ Gt(loc.current_exposure, Zero)
    /\ Lt(loc.bankroll, config.initial_bankroll)

\* the sizing main computes for the opportunity the execute loop decides next
NextSizing ==
    size_position_with_time([kelly_fraction |-> loc.effective_kelly,
                             max_position_pct |-> config.max_position_pct,
                             max_total_exposure_pct |-> config.max_total_exposure_pct],
                            NextOpp, loc.bankroll, loc.current_exposure,
                            days_until(NextOpp.market_id))

\* the status and reject_reason rows of cycle k for market m
StatusOf(rows, k, m) ==
    {<<rows[i].status, rows[i].reject_reason>> :
        i \in {j \in 1..Len(rows) : rows[j].cycle_number = k /\ rows[j].condition_id = m}}

\* C34: when Executor.execute returns an error for an opportunity, the
\* controller marks that opportunity rejected with reason execution_failed,
\* does not count it in trades_placed, and goes on with the remaining
\* opportunities of the same cycle.
C34_ExecutionFailureIsSkipped ==
    [][(/\ pc = "execute"
        /\ loc.opp_idx <= Len(loc.opportunities)
        /\ loc'.opp_idx = loc.opp_idx + 1
        /\ pre_trade_verdict(config, loc, positions, NextOpp, NextSizing)[1] = "size"
        /\ trades' = trades)
       => (/\ StatusOf(cycle_opportunities', cycle_number, NextOpp.market_id)
                 = {<<"rejected", "execution_failed">>}
           /\ loc'.trades_placed = loc.trades_placed
           /\ loc'.opportunities = loc.opportunities
           /\ pc' = "execute"
           /\ UNCHANGED <<positions, bankroll_log>>)]_vars

\* the first entry of a cycle failed (the markets table lacks the market) and
\* the second opportunity was taken up all the same
C34_Witness ==
    /\ pc = "execute"
    /\ loc.opp_idx = 3
    /\ loc.trades_placed = 0
    /\ StatusOf(cycle_opportunities, cycle_number, loc.opportunities[1].market_id)
           = {<<"rejected", "execution_failed">>}
    /\ StatusOf(cycle_opportunities, cycle_number, loc.opportunities[2].market_id)
           # {<<"pending", "">>}


\* ---------------------------------------------------------------------------
\* C35: a failed quote fetch skips that position only
\* ---------------------------------------------------------------------------
CheckedPos == loc.mgmt_positions[loc.mgmt_idx]

PositionChecked ==
    /\ pc = "manage" /\ pc' = "manage"
    /\ loc.mgmt_idx <= Len(loc.mgmt_positions)
    /\ loc'.mgmt_idx = loc.mgmt_idx + 1

\* C35: when the quote fetch for one open position fails during the position
\* check, the ledger (its current_price and unrealized_pnl included) is left
\* as it was, no alert is logged and no exit is queued for it; the check of
\* the remaining positions goes on, and a position whose quote does arrive has
\* that quote and the matching unrealized profit written to its open row.
C35_FailedQuoteSkipsOnePosition ==
    [][PositionChecked =>
        /\ loc'.mgmt_positions = loc.mgmt_positions
        /\ loc'.midpoint = NULL =>
              /\ positions' = positions
              /\ position_alerts' = position_alerts
              /\ loc'.exits_triggered = loc.exits_triggered
        /\ loc'.midpoint # NULL =>
              \A j \in OpenIdx(positions, CheckedPos.market_condition_id, CheckedPos.side) :
                  /\ positions'[j].current_price = loc'.midpoint
                  /\ positions'[j].unrealized_pnl =
                        Mul(Sub(loc'.midpoint, positions[j].entry_price), positions[j].size)]_vars

\* two open positions checked: the first one's fetch failed and left its row
\* without a price, the second one's quote was stored
C35_Witness ==
    /\ pc = "manage"
    /\ Len(loc.mgmt_positions) = 2
    /\ loc.mgmt_idx = 3
    /\ \E i, j \in 1..Len(positions) :
          /\ positions[i].status = "open" /\ positions[j].status = "open"
          /\ positions[i].market_condition_id = loc.mgmt_positions[1].market_condition_id
          /\ positions[j].market_condition_id = loc.mgmt_positions[2].market_condition_id
          /\ positions[i].current_price = NULL
          /\ positions[j].current_price = loc.midpoint
          /\ loc.midpoint # NULL
    /\ \A a \in 1..Len(position_alerts) :
          position_alerts[a].market_condition_id # loc.mgmt_positions[1].market_condition_id


\* ---------------------------------------------------------------------------
\* C36: the drawdown breaker and the kelly fraction of the cycle
\* ---------------------------------------------------------------------------
\* the bankrolls of the cycles up to the i-th whose drawdown check answered
AnsweredUpTo(i) ==
    SelectSeq([j \in 1..i |-> IF client.returned[j].state # NULL
                              THEN client.passed[j] ELSE <<-1, 1>>],
              LAMBDA v : v # <<-1, 1>>)

DrawdownOf(peak, current) ==
    IF Gt(peak, Zero) THEN Div(Sub(peak, current), peak) ELSE Zero

\* C36: each answered drawdown check reports the highest bankroll seen so far
\* (the present one included) as the peak, the drawdown (peak - current) / peak
\* (0 when the peak is not positive), and the breaker as active exactly when
\* that drawdown reaches the threshold; the cycle's kelly fraction is
\* kelly_fraction * drawdown_sizing_reduction when its breaker is reported
\* active and kelly_fraction otherwise, whatever the earlier cycles had; the
\* sizer of the running cycle holds the fraction of the last check.
C36_DrawdownSetsTheCycleKelly ==
    client.calls > 0 =>
        /\ \A i \in 1..Len(client.returned) :
              LET r == client.returned[i]
                  peak == MaxOf(AnsweredUpTo(i))
                  active == Ge(DrawdownOf(peak, client.passed[i]),
                               config.drawdown_circuit_breaker_pct)
              IN  IF r.state = NULL
                  THEN r.effective_kelly = config.kelly_fraction
                  ELSE /\ r.state.peak_bankroll = peak
                       /\ r.state.drawdown_pct = DrawdownOf(peak, client.passed[i])
                       /\ r.state.is_circuit_breaker_active = active
                       /\ r.effective_kelly =
                             IF active
                             THEN Mul(config.kelly_fraction, config.drawdown_sizing_reduction)
                             ELSE config.kelly_fraction
        /\ loc.effective_kelly = client.returned[Len(client.returned)].effective_kelly
        /\ AnsweredUpTo(Len(client.returned)) # <<>> =>
              peak_bankroll[Len(peak_bankroll)] = MaxOf(AnsweredUpTo(Len(client.returned)))

\* a cycle with the breaker active and the reduced fraction, followed by a
\* cycle whose bankroll is back within the threshold and whose sizer has the
\* unreduced fraction although the peak is still above the bankroll
C36_Witness ==
    /\ client.calls >= 3
    /\ LET n == Len(client.returned)
       IN  /\ client.returned[n - 1].state # NULL
           /\ client.returned[n - 1].state.is_circuit_breaker_active
           /\ client.returned[n - 1].effective_kelly # config.kelly_fraction
           /\ client.returned[n].state # NULL
           /\ ~client.returned[n].state.is_circuit_breaker_active
           /\ Gt(client.returned[n].state.peak_bankroll, client.passed[n])
           /\ loc.effective_kelly = config.kelly_fraction


\* ---------------------------------------------------------------------------
\* C37: no second entry into a weather market with an open position
\* ---------------------------------------------------------------------------
\* the execution loop takes up a weather opportunity whose market has an open
\* position in the ledger
PositionedWeatherOppTaken ==
    /\ pc = "execute"
    /\ loc.opp_idx <= Len(loc.opportunities)
    /\ loc'.opp_idx = loc.opp_idx + 1
    /\ is_weather(NextOpp.market_id)
    /\ \E i \in 1..Len(positions) : /\ positions[i].market_condition_id = NextOpp.market_id
                                    /\ positions[i].status = "open"

NoEntryMade ==
    /\ UNCHANGED <<trades, positions, bankroll_log, orders>>
    /\ loc'.trades_placed = loc.trades_placed

CycleCompleted == pc = "log" /\ pc' # "log"

\* C38: with MAX_CYCLES = n the run never counts more than n cycles, is in no
\* step of a cycle and in no sleep once n cycles are counted, and a stopped
\* or dead run has shut its sidecar down.  The step that completes a cycle
\* with the agent alive counts it, and goes to the successful stop when the
\* count reaches n and to the sleep otherwise; with the bankroll depleted it
\* goes to the death exit and counts nothing.  A stopped run takes no step.
C38_StopsAfterMaxCycles ==
    /\ [](config.max_cycles # <<>> =>
            /\ cycles_run <= config.max_cycles[1]
            /\ pc \notin {"stopped", "dead", "boot"} => cycles_run < config.max_cycles[1])
    /\ [](pc \in {"stopped", "dead"} => sidecar_child = "down")
    /\ [][CycleCompleted =>
            IF loc.accounting.is_alive
            THEN /\ cycles_run' = cycles_run + 1
                 /\ Len(cycle_log') = Len(cycle_log) + 1
                 /\ pc' = IF config.max_cycles # <<>> /\ cycles_run' = config.max_cycles[1]
                          THEN "stopped" ELSE "sleep"
            ELSE /\ pc' = "dead"
                 /\ cycles_run' = cycles_run]_vars
    /\ [][pc # "stopped"]_vars

\* a run with MAX_CYCLES = 1 has stopped after its one cycle, the agent alive
C38_Witness ==
    /\ pc = "stopped"
    /\ config.max_cycles = <<1>>
    /\ cycles_run = 1
    /\ Len(cycle_log) = 1
    /\ loc.accounting.is_alive
    /\ sidecar_child = "down"


\* ---------------------------------------------------------------------------
\* C39: exit_position without an open position
\* ---------------------------------------------------------------------------
\* exit_position is called with a row whose (market, side) has no open position
ExitWithoutOpenPosition ==
    /\ LedgerCall("exit_position")
    /\ OpenIdx(positions, client'.passed.position.market_condition_id,
               client'.passed.position.side) = {}

\* C39: exit_position called for a (market, side) that has no open position
\* in the ledger returns an error and leaves the ledger unchanged: no SELL
\* trade row is recorded and no exit or trading_fee bankroll entry is appended.
C39_ExitWithoutPositionLeavesLedger ==
    [][ExitWithoutOpenPosition =>
        /\ ~client'.returned.ok
        /\ trades' = trades
        /\ positions' = positions
        /\ bankroll_log' = bankroll_log]_vars


\* ---------------------------------------------------------------------------
\* C40: edge decay of a NO position
\* ---------------------------------------------------------------------------
\* the position check queues an Edge decay exit for the NO position it checks
EdgeDecayExitOfNo ==
    /\ PositionChecked
    /\ CheckedPos.side = "NO"
    /\ loc'.midpoint # NULL
    /\ Len(loc'.exits_triggered) = Len(loc.exits_triggered) + 1
    /\ loc'.exits_triggered[Len(loc'.exits_triggered)].reason = "Edge decay"

\* C40: an Edge decay exit of an open NO position is triggered only when the
\* fetched price of its NO token is within min_exit_edge of the position's
\* win probability, 1 - estimate, the estimate being the YES probability
\* stored with the position (refreshed or as recorded at entry).
C40_NoSideEdgeDecayIsSideConsistent ==
    [][EdgeDecayExitOfNo =>
        \A j \in OpenIdx(positions', CheckedPos.market_condition_id, "NO") :
            /\ positions'[j].estimated_probability # NULL
            /\ Lt(RAbs(Sub(Sub(One, positions'[j].estimated_probability), loc'.midpoint)),
                  config.min_exit_edge)]_vars

====
